---- MODULE Spec2Model ----
(***************************************************************************)
(* Verification model of tools/oletools/olevba.py: the MS-OVBA             *)
(* decompression codec (decompress_stream, copytoken_help), the ActiveMime *)
(* unwrapper (mso_file_extract), the dir-stream walker (_extract_vba) and  *)
(* the container orchestrator (VBA_Parser).                                *)
(*                                                                         *)
(* Bytes are naturals 0..255, byte strings are sequences of bytes, and     *)
(* positions are 0-based as in the Python source.                          *)
(***************************************************************************)
EXTENDS Integers, Sequences, FiniteSets, TLC

\* ------------------------------------------------------------------------
\* Bounds of the model
\* ------------------------------------------------------------------------

\* longest chunk body (bytes after the first chunk header) of the enumerated inputs
MaxBody == 4

\* ------------------------------------------------------------------------
\* Python primitives used by the codec
\* ------------------------------------------------------------------------

Min(a, b) == IF a <= b THEN a ELSE b

\* the least number of a set that is not empty
Least(S) == CHOOSE x \in S : \A y \in S : x <= y

Max(a, b) == IF a >= b THEN a ELSE b

RECURSIVE Pow2(_)
Pow2(n) == IF n = 0 THEN 1 ELSE 2 * Pow2(n - 1)

\* x >> n on a non-negative integer
ShiftRight(x, n) == x \div Pow2(n)

\* a & b on non-negative integers
RECURSIVE BitAnd(_, _)
BitAnd(a, b) ==
    IF a = 0 \/ b = 0 THEN 0
    ELSE (a % 2) * (b % 2) + 2 * BitAnd(a \div 2, b \div 2)

\* the element of a set of one element: in TheOne({e(x) : x \in {v}}) the
\* value v of a parser is computed once, however often e uses it
TheOne(S) == CHOOSE x \in S : TRUE

\* s[i] with a non-negative 0-based index
At(s, i) == s[i + 1]

\* s[a:b] for 0 <= a, clamped to the end of s as Python slices are
Slice(s, a, b) == SubSeq(s, a + 1, Min(b, Len(s)))

\* struct.unpack("<H", two bytes)
UnpackH(two) == two[1] + 256 * two[2]

\* int(math.ceil(math.log(d, 2))) for d >= 1
RECURSIVE CeilLog2From(_, _)
CeilLog2From(d, k) == IF Pow2(k) >= d THEN k ELSE CeilLog2From(d, k + 1)

CeilLog2(d) == CeilLog2From(d, 0)

\* ------------------------------------------------------------------------
\* State
\* ------------------------------------------------------------------------

VARIABLES
    compressed_container,     \* argument of decompress_stream
    compressed_current,       \* read position
    decompressed_container,   \* output built so far
    compressed_chunk_start,
    compressed_chunk_header,  \* -1 until a chunk header has been unpacked
    compressed_end,
    decompressed_chunk_start,
    flag_byte,
    bit_index,
    offset,                   \* offset of the last unpacked copy token, 0 before any
    copy_source,              \* len(decompressed_container) - offset at that token
    pc,                       \* "start", "chunk", "raw", "tokens", "token", "done", "raised"
    err                       \* exception type when pc = "raised"

codecVars == <<compressed_container, compressed_current, decompressed_container,
               compressed_chunk_start, compressed_chunk_header, compressed_end,
               decompressed_chunk_start, flag_byte, bit_index, offset, copy_source,
               pc, err>>

\* ------------------------------------------------------------------------
\* copytoken_help
\* ------------------------------------------------------------------------

BitCount(difference) == Max(CeilLog2(difference), 4)

LengthMask(bit_count) == ShiftRight(65535, bit_count)

\* ~length_mask, restricted to the 16 bits a copy token has
OffsetMask(bit_count) == 65535 - LengthMask(bit_count)

\* ------------------------------------------------------------------------
\* decompress_stream
\* ------------------------------------------------------------------------

ChunkSize(header) == BitAnd(header, 4095) + 3

ChunkSignature(header) == BitAnd(ShiftRight(header, 12), 7)

ChunkFlag(header) == BitAnd(ShiftRight(header, 15), 1)

SignatureInvalid(header) == ChunkSignature(header) # 3

CompressedSizeInvalid(header) == ChunkFlag(header) = 1 /\ ChunkSize(header) > 4098

RawSizeInvalid_lenient(header) == ChunkFlag(header) = 0 /\ ChunkSize(header) > 4098

RawSizeInvalid(header) == ChunkFlag(header) = 0 /\ ChunkSize(header) # 4098

FlagBit(byte, index) == BitAnd(ShiftRight(byte, index), 1)

TokenLength(copy_token, bit_count) == BitAnd(copy_token, LengthMask(bit_count)) + 3

TokenOffset(copy_token, bit_count) ==
    ShiftRight(BitAnd(copy_token, OffsetMask(bit_count)), 16 - bit_count) + 1

\* decompressed_container[index] with Python's index rule: a negative index
\* counts from the end, an index outside the string raises IndexError
IndexOK(s, index) == IF index >= 0 THEN index < Len(s) ELSE Len(s) + index >= 0

Index(s, index) == IF index >= 0 THEN s[index + 1] ELSE s[Len(s) + index + 1]

\* a block copy of the source range, as a slice taken before anything is appended
CopyLoop_block(container, first, last) ==
    IF ~IndexOK(container, first) THEN <<FALSE, container>>
    ELSE <<TRUE, container \o Slice(container, Max(first, 0), last)>>

\* for index in xrange(first, last): container += container[index]
\* The iterations run in order, the first half of the range before the second
\* (this keeps the evaluation shallow for long copies); the result is
\* <<TRUE, container>>, or <<FALSE, ...>> as soon as an index raised.
RECURSIVE CopyLoop(_, _, _)
CopyLoop(container, first, last) ==
    IF first >= last THEN <<TRUE, container>>
    ELSE IF last = first + 1
         THEN IF IndexOK(container, first)
              THEN <<TRUE, Append(container, Index(container, first))>>
              ELSE <<FALSE, container>>
         ELSE TheOne({TheOne({IF left[1] THEN CopyLoop(left[2], mid, last) ELSE left :
                              left \in {CopyLoop(container, first, mid)}}) :
                      mid \in {(first + last) \div 2}})

Raise(e) == pc' = "raised" /\ err' = e

CheckSignature ==
    /\ pc = "start"
    /\ IF Len(compressed_container) = 0
       THEN Raise("IndexError") /\ UNCHANGED compressed_current
       ELSE IF At(compressed_container, 0) # 1
            THEN Raise("ValueError") /\ UNCHANGED compressed_current
            ELSE pc' = "chunk" /\ compressed_current' = 1 /\ UNCHANGED err
    /\ UNCHANGED <<compressed_container, decompressed_container, compressed_chunk_start,
                   compressed_chunk_header, compressed_end, decompressed_chunk_start,
                   flag_byte, bit_index, offset, copy_source>>

Return ==
    /\ pc = "chunk"
    /\ compressed_current >= Len(compressed_container)
    /\ pc' = "done"
    /\ UNCHANGED <<compressed_container, compressed_current, decompressed_container,
                   compressed_chunk_start, compressed_chunk_header, compressed_end,
                   decompressed_chunk_start, flag_byte, bit_index, offset, copy_source, err>>

ReadChunkHeader ==
    /\ pc = "chunk"
    /\ compressed_current < Len(compressed_container)
    /\ compressed_chunk_start' = compressed_current
    /\ LET two == Slice(compressed_container, compressed_current, compressed_current + 2)
           header == UnpackH(two)
       IN IF Len(two) < 2
          THEN /\ Raise("struct.error")
               /\ UNCHANGED <<compressed_chunk_header, compressed_end, compressed_current,
                              decompressed_chunk_start>>
          ELSE /\ compressed_chunk_header' = header
               /\ IF \/ SignatureInvalid(header)
                     \/ CompressedSizeInvalid(header)
                     \/ RawSizeInvalid(header)
                  THEN /\ Raise("ValueError")
                       /\ UNCHANGED <<compressed_end, compressed_current,
                                      decompressed_chunk_start>>
                  ELSE /\ compressed_end' = Min(Len(compressed_container),
                                                compressed_current + ChunkSize(header))
                       /\ compressed_current' = compressed_current + 2
                       /\ IF ChunkFlag(header) = 0
                          THEN pc' = "raw" /\ UNCHANGED decompressed_chunk_start
                          ELSE /\ pc' = "tokens"
                               /\ decompressed_chunk_start' = Len(decompressed_container)
                       /\ UNCHANGED err
    /\ UNCHANGED <<compressed_container, decompressed_container, flag_byte, bit_index,
                   offset, copy_source>>

DecompressRawChunk ==
    /\ pc = "raw"
    /\ decompressed_container' = decompressed_container \o
           Slice(compressed_container, compressed_current, compressed_current + 4096)
    /\ compressed_current' = compressed_current + 4096
    /\ pc' = "chunk"
    /\ UNCHANGED <<compressed_container, compressed_chunk_start, compressed_chunk_header,
                   compressed_end, decompressed_chunk_start, flag_byte, bit_index, offset,
                   copy_source, err>>

EndOfChunk ==
    /\ pc = "tokens"
    /\ compressed_current >= compressed_end
    /\ pc' = "chunk"
    /\ UNCHANGED <<compressed_container, compressed_current, decompressed_container,
                   compressed_chunk_start, compressed_chunk_header, compressed_end,
                   decompressed_chunk_start, flag_byte, bit_index, offset, copy_source, err>>

ReadFlagByte ==
    /\ pc = "tokens"
    /\ compressed_current < compressed_end
    /\ flag_byte' = At(compressed_container, compressed_current)
    /\ compressed_current' = compressed_current + 1
    /\ bit_index' = 0
    /\ pc' = "token"
    /\ UNCHANGED <<compressed_container, decompressed_container, compressed_chunk_start,
                   compressed_chunk_header, compressed_end, decompressed_chunk_start,
                   offset, copy_source, err>>

\* the for loop over bit_index ends: after 8 tokens, or by the break
EndOfTokenSequence ==
    /\ pc = "token"
    /\ bit_index = 8 \/ compressed_current >= compressed_end
    /\ pc' = "tokens"
    /\ UNCHANGED <<compressed_container, compressed_current, decompressed_container,
                   compressed_chunk_start, compressed_chunk_header, compressed_end,
                   decompressed_chunk_start, flag_byte, bit_index, offset, copy_source, err>>

\* a literal token that is read without moving on
LiteralToken_stuck ==
    /\ pc = "token"
    /\ bit_index < 8
    /\ compressed_current < compressed_end
    /\ FlagBit(flag_byte, bit_index) = 0
    /\ UNCHANGED <<compressed_container, compressed_current, decompressed_container,
                   compressed_chunk_start, compressed_chunk_header, compressed_end,
                   decompressed_chunk_start, flag_byte, bit_index, offset, copy_source,
                   pc, err>>

LiteralToken ==
    /\ pc = "token"
    /\ bit_index < 8
    /\ compressed_current < compressed_end
    /\ FlagBit(flag_byte, bit_index) = 0
    /\ decompressed_container' =
           Append(decompressed_container, At(compressed_container, compressed_current))
    /\ compressed_current' = compressed_current + 1
    /\ bit_index' = bit_index + 1
    /\ UNCHANGED <<compressed_container, compressed_chunk_start, compressed_chunk_header,
                   compressed_end, decompressed_chunk_start, flag_byte, offset,
                   copy_source, pc, err>>

CopyToken ==
    /\ pc = "token"
    /\ bit_index < 8
    /\ compressed_current < compressed_end
    /\ FlagBit(flag_byte, bit_index) = 1
    /\ LET two == Slice(compressed_container, compressed_current, compressed_current + 2)
           copy_token == UnpackH(two)
           difference == Len(decompressed_container) - decompressed_chunk_start
           bit_count == BitCount(difference)
           length == TokenLength(copy_token, bit_count)
           off == TokenOffset(copy_token, bit_count)
           source == Len(decompressed_container) - off
           copied == TheOne({CopyLoop(container, first, last) :
                                container \in {decompressed_container},
                                first \in {source}, last \in {source + length}})
       IN IF Len(two) < 2
          THEN /\ Raise("struct.error")
               /\ UNCHANGED <<decompressed_container, compressed_current, bit_index,
                              offset, copy_source>>
          ELSE IF difference = 0 \/ bit_count > 16
          THEN \* math.log(0, 2), or a negative shift count
               /\ Raise("ValueError")
               /\ UNCHANGED <<decompressed_container, compressed_current, bit_index,
                              offset, copy_source>>
          ELSE /\ offset' = off
               /\ copy_source' = source
               /\ IF copied[1]
                  THEN /\ decompressed_container' = copied[2]
                       /\ compressed_current' = compressed_current + 2
                       /\ bit_index' = bit_index + 1
                       /\ UNCHANGED <<pc, err>>
                  ELSE /\ Raise("IndexError")
                       /\ decompressed_container' = copied[2]
                       /\ UNCHANGED <<compressed_current, bit_index>>
    /\ UNCHANGED <<compressed_container, compressed_chunk_start, compressed_chunk_header,
                   compressed_end, decompressed_chunk_start, flag_byte>>

\* ------------------------------------------------------------------------
\* VBA_Parser.__init__: container detection
\* ------------------------------------------------------------------------

VARIABLES
    file,         \* what the input is: the outcome of each content test and of
                  \* each open_* attempt on it
    type,         \* self.type: "None" or one of the TYPE_ constants
    opened,       \* the open_* methods __init__ has called, in order
    init_pc       \* "ole", "zip", "data", "mht", "text", "final", "constructed", "TypeError"

detectVars == <<file, type, opened, init_pc>>

TYPE_OLE == "OLE"

TYPE_OpenXML == "OpenXML"

TYPE_Word2003_XML == "Word2003_XML"

TYPE_MHTML == "MHTML"

TYPE_TEXT == "Text"

\* open_ole .. open_mht: the method is recorded, and sets the type only if
\* parsing succeeds (the except clause logs and passes)
Open(method, parses, t) ==
    /\ opened' = Append(opened, method)
    /\ type' = IF parses THEN t ELSE type

\* the guard of the second test of __init__
ZipRuleApplies_unguarded == file.is_zipfile

ZipRuleApplies == type = "None" /\ file.is_zipfile

\* if olefile.isOleFile(_file): self.open_ole(_file)
TestOle ==
    /\ init_pc = "ole"
    /\ IF file.isOleFile
       THEN Open("open_ole", file.ole_parses, TYPE_OLE)
       ELSE UNCHANGED <<opened, type>>
    /\ init_pc' = "zip"
    /\ UNCHANGED file

\* if self.type is None and zipfile.is_zipfile(_file): self.open_openxml(_file)
TestZip ==
    /\ init_pc = "zip"
    /\ IF ZipRuleApplies
       THEN Open("open_openxml", file.zip_parses, TYPE_OpenXML)
       ELSE UNCHANGED <<opened, type>>
    /\ init_pc' = IF type' = "None" THEN "data" ELSE "final"
    /\ UNCHANGED file

\* inside "if self.type is None:", the namespace test
TestWord2003Xml ==
    /\ init_pc = "data"
    /\ IF file.has_wordml_namespace
       THEN Open("open_word2003xml", file.xml_parses, TYPE_Word2003_XML)
       ELSE UNCHANGED <<opened, type>>
    /\ init_pc' = "mht"
    /\ UNCHANGED file

TestMht ==
    /\ init_pc = "mht"
    /\ IF type = "None" /\ file.has_mime_tokens
       THEN Open("open_mht", file.mht_parses, TYPE_MHTML)
       ELSE UNCHANGED <<opened, type>>
    /\ init_pc' = "text"
    /\ UNCHANGED file

\* open_text only stores the data: it always succeeds
TestText ==
    /\ init_pc = "text"
    /\ IF type = "None" /\ ~file.has_nul
       THEN Open("open_text", TRUE, TYPE_TEXT)
       ELSE UNCHANGED <<opened, type>>
    /\ init_pc' = "final"
    /\ UNCHANGED file

\* if self.type is None: raise TypeError(msg)
FinishInit ==
    /\ init_pc = "final"
    /\ init_pc' = IF type = "None" THEN "TypeError" ELSE "constructed"
    /\ UNCHANGED <<file, type, opened>>

\* ------------------------------------------------------------------------
\* mso_file_extract
\* ------------------------------------------------------------------------

VARIABLES
    mso_data,     \* the ActiveMime data: its length, the 16-bit value at 0x1E, the
                  \* positions of its 0x78 bytes, and the positions from which
                  \* zlib.decompress(data[start:]) succeeds
    mso_pc,       \* "header", "guess", "scan", "returned", "raised"
    mso_index,    \* position in the loop that is running
    mso_tried     \* the starts zlib.decompress was attempted from, in order

msoVars == <<mso_data, mso_pc, mso_index, mso_tried>>

\* the elements of a set of naturals in ascending order, as finditer finds them
RECURSIVE Ascending(_)
Ascending(S) ==
    IF S = {} THEN <<>>
    ELSE LET m == CHOOSE x \in S : \A y \in S : x <= y
         IN <<m>> \o Ascending(S \ {m})

\* for start in (offset, 0x32, 0x22A)
GuessedStarts_swapped(hdr_offset) == <<50, hdr_offset, 554>>

GuessedStarts(hdr_offset) == <<hdr_offset, 50, 554>>

\* zlib.decompress(data[start:]) returns
Inflates(start) == start \in mso_data.inflatable

\* struct.unpack_from('<H', data, offset=0x1E)[0] + 46
ReadMsoHeader ==
    /\ mso_pc = "header"
    /\ IF mso_data.len < 32
       THEN mso_pc' = "raised"
       ELSE mso_pc' = "guess"
    /\ mso_index' = 1
    /\ UNCHANGED <<mso_data, mso_tried>>

TryGuessedStart ==
    /\ mso_pc = "guess"
    /\ LET start == GuessedStarts(mso_data.hdr + 46)[mso_index]
       IN /\ mso_tried' = Append(mso_tried, start)
          /\ IF Inflates(start)
             THEN mso_pc' = "returned" /\ UNCHANGED mso_index
             ELSE IF mso_index < 3
                  THEN mso_index' = mso_index + 1 /\ UNCHANGED mso_pc
                  ELSE mso_index' = 1 /\ mso_pc' = "scan"
    /\ UNCHANGED mso_data

\* for match in re_zlib_header.finditer(data)
TryZlibHeader ==
    /\ mso_pc = "scan"
    /\ mso_index <= Cardinality(mso_data.x_positions)
    /\ LET start == Ascending(mso_data.x_positions)[mso_index]
       IN /\ mso_tried' = Append(mso_tried, start)
          /\ IF Inflates(start)
             THEN mso_pc' = "returned" /\ UNCHANGED mso_index
             ELSE mso_index' = mso_index + 1 /\ UNCHANGED mso_pc
    /\ UNCHANGED mso_data

\* raise RuntimeError('Unable to decompress data from a MSO/ActiveMime file')
RaiseUnableToDecompress ==
    /\ mso_pc = "scan"
    /\ mso_index > Cardinality(mso_data.x_positions)
    /\ mso_pc' = "raised"
    /\ UNCHANGED <<mso_data, mso_index, mso_tried>>

\* ------------------------------------------------------------------------
\* VBA_Parser on a compound document: extract_macros, extract_all_macros,
\* analyze_macros, and the generator _extract_vba
\* ------------------------------------------------------------------------

\* most calls made on one parser
MaxCalls == 2

\* most module record groups in the dir stream of a project
MaxModules == 2

\* most records in the reference array of a dir stream
MaxRefs == 2

\* Python's None, and a value that is not None
NoneValue == [some |-> FALSE]

Some(v) == [some |-> TRUE, v |-> v]

VARIABLES
    doc,                    \* the compound document: its VBA projects (the reference
                            \* array and the module record groups of each dir stream,
                            \* the state of each module stream) and its form strings
    modules,                \* self.modules
    vba_code_all_modules,   \* self.vba_code_all_modules
    analysis_results,       \* self.analysis_results
    contains_macros,        \* self.contains_macros
    call,                   \* the method call in progress
    gen,                    \* where the generators extract_macros / _extract_vba stand
    parser_pc,              \* "idle", "extracting", "exited"
    outcomes                \* how each finished call ended, in order

parserVars == <<doc, modules, vba_code_all_modules, analysis_results, contains_macros,
                call, gen, parser_pc, outcomes>>

\* a source text is a sequence of tokens: <<p, j>> is the source that the stream
\* of module j of project p decompresses to, <<0, 0>> a newline, <<0, k>> the
\* k-th form string
Newline == <<0, 0>>

SourceOf(streamname) == <<streamname>>

\* the record tags of the reference array that _extract_vba knows
KnownReferenceIds == {22, 51, 47, 13, 14}

PROJECTMODULES_Id == 15

NoCall == [op |-> "none", show |-> FALSE, deob |-> FALSE]

NoGen == [proj |-> 0, phase |-> "none", i |-> 0, x |-> 0,
          streamname |-> NoneValue, textoffset |-> NoneValue]

\* self.vba_code_all_modules += vba_code + '\n', for each module in turn
RECURSIVE ConcatModules_reversed(_)
ConcatModules_reversed(mods) ==
    IF mods = <<>> THEN <<>>
    ELSE ConcatModules_reversed(Tail(mods)) \o Head(mods).code \o <<Newline>>

RECURSIVE ConcatModules(_)
ConcatModules(mods) ==
    IF mods = <<>> THEN <<>>
    ELSE Head(mods).code \o <<Newline>> \o ConcatModules(Tail(mods))

\* self.vba_code_all_modules += form_string + '\n', for each form string
RECURSIVE ConcatForms(_)
ConcatForms(forms) ==
    IF forms = <<>> THEN <<>>
    ELSE <<Head(forms), Newline>> \o ConcatForms(Tail(forms))

\* VBA_Scanner(code).scan(show_decoded_strings, deobfuscate): the findings are
\* determined by the source scanned and the two arguments
Scan(source, show, deob) == [source |-> source, show |-> show, deob |-> deob]

\* the end of a call made with the arguments show_decoded_strings and
\* deobfuscate: it returns a value, or an exception leaves it
EndCallWith(op, result, value, e, show, deob) ==
    /\ outcomes' = Append(outcomes, [op |-> op, result |-> result, value |-> value,
                                     err |-> e, show |-> show, deob |-> deob])
    /\ call' = NoCall
    /\ gen' = NoGen
    \* SystemExit ends the process unless the caller catches it (a bare except does)
    /\ parser_pc' \in IF e = "SystemExit" THEN {"exited", "idle"} ELSE {"idle"}

\* the end of the call in progress, or of a call that takes no argument
EndCall(op, result, value, e) == EndCallWith(op, result, value, e, call.show, call.deob)

\* an exception raised inside _extract_vba leaves the generators and the call
RaiseFromGenerator(e) ==
    /\ EndCall(call.op, "raise", NoneValue, e)
    /\ UNCHANGED <<doc, modules, vba_code_all_modules, analysis_results, contains_macros>>

StartGenerator(op, show, deob) ==
    /\ call' = [op |-> op, show |-> show, deob |-> deob]
    /\ gen' = [NoGen EXCEPT !.proj = 1, !.phase = "project"]
    /\ parser_pc' = "extracting"
    /\ UNCHANGED outcomes

\* extract_all_macros()
CallExtractAllMacros ==
    /\ parser_pc = "idle"
    /\ Len(outcomes) < MaxCalls
    /\ IF modules.some
       THEN /\ EndCall("extract_all_macros", "return", modules, "none")
            /\ UNCHANGED modules
       ELSE /\ modules' = Some(<<>>)
            /\ StartGenerator("extract_all_macros", FALSE, FALSE)
    /\ UNCHANGED <<doc, vba_code_all_modules, analysis_results, contains_macros>>

\* detect_vba_macros() on a compound document
DetectVbaMacros ==
    IF contains_macros.some THEN contains_macros.v ELSE Len(doc.projects) # 0

\* the source analyze_macros builds once extract_all_macros has returned
BuildSource(mods) == ConcatModules(mods) \o ConcatForms(doc.forms)

\* analyze_macros(show_decoded_strings, deobfuscate)
CallAnalyzeMacros(show, deob) ==
    /\ parser_pc = "idle"
    /\ Len(outcomes) < MaxCalls
    /\ contains_macros' = Some(DetectVbaMacros)
    /\ IF ~DetectVbaMacros \/ analysis_results.some
       THEN /\ EndCallWith("analyze_macros", "return", analysis_results, "none", show, deob)
            /\ UNCHANGED <<modules, vba_code_all_modules, analysis_results>>
       ELSE IF ~vba_code_all_modules.some /\ ~modules.some
       THEN /\ vba_code_all_modules' = Some(<<>>)
            /\ modules' = Some(<<>>)
            /\ StartGenerator("analyze_macros", show, deob)
            /\ UNCHANGED analysis_results
       ELSE LET source == IF vba_code_all_modules.some THEN vba_code_all_modules.v
                          ELSE BuildSource(modules.v)
            IN /\ vba_code_all_modules' = Some(source)
               /\ analysis_results' = Some(Scan(source, show, deob))
               /\ EndCallWith("analyze_macros", "return", analysis_results', "none", show, deob)
               /\ UNCHANGED modules
    /\ UNCHANGED doc

\* the findings hold the results of the VBA expressions of the source: scan
\* looks for them only when deobfuscate is set (lines 1796-1801), and finds
\* them in the source of a module
HasExpressionFindings(findings) ==
    /\ findings.deob
    /\ \E k \in 1..Len(findings.source) : findings.source[k][1] > 0

\* reveal after its call of analyze_macros: the source of all modules, in
\* which the encoded text of every 'VBA string' finding of the analysis is
\* replaced by its decoded value in double quotes
RevealOf(findings) ==
    [source |-> findings.source, substituted |-> HasExpressionFindings(findings)]

\* reveal(): it calls analyze_macros(show_decoded_strings=False), so with
\* deobfuscate left to its default False, sorts what it returns (None has no
\* order: TypeError) and substitutes in self.vba_code_all_modules
CallReveal ==
    /\ parser_pc = "idle"
    /\ Len(outcomes) < MaxCalls
    /\ contains_macros' = Some(DetectVbaMacros)
    /\ IF ~DetectVbaMacros
       THEN /\ EndCallWith("reveal", "raise", NoneValue, "TypeError", FALSE, FALSE)
            /\ UNCHANGED <<modules, vba_code_all_modules, analysis_results>>
       ELSE IF analysis_results.some
       THEN /\ EndCallWith("reveal", "return", Some(RevealOf(analysis_results.v)), "none",
                           FALSE, FALSE)
            /\ UNCHANGED <<modules, vba_code_all_modules, analysis_results>>
       ELSE IF ~vba_code_all_modules.some /\ ~modules.some
       THEN /\ vba_code_all_modules' = Some(<<>>)
            /\ modules' = Some(<<>>)
            /\ StartGenerator("reveal", FALSE, FALSE)
            /\ UNCHANGED analysis_results
       ELSE LET source == IF vba_code_all_modules.some THEN vba_code_all_modules.v
                          ELSE BuildSource(modules.v)
            IN /\ vba_code_all_modules' = Some(source)
               /\ analysis_results' = Some(Scan(source, FALSE, FALSE))
               /\ EndCallWith("reveal", "return", Some(RevealOf(analysis_results'.v)),
                              "none", FALSE, FALSE)
               /\ UNCHANGED modules
    /\ UNCHANGED doc

\* _extract_vba is entered for the next project: the PROJECT stream is read,
\* the dir stream decompressed and its fixed records up to PROJECTCONSTANTS
\* read (their checks only log)
BeginProject ==
    /\ parser_pc = "extracting"
    /\ gen.phase = "project"
    /\ gen.proj <= Len(doc.projects)
    /\ gen' = [gen EXCEPT !.phase = "refs", !.i = 1, !.x = 0,
                          !.streamname = NoneValue, !.textoffset = NoneValue]
    /\ UNCHANGED <<doc, modules, vba_code_all_modules, analysis_results, contains_macros,
                   call, parser_pc, outcomes>>

\* one iteration of the "while True" loop over the reference array
ParseReference ==
    /\ parser_pc = "extracting"
    /\ gen.phase = "refs"
    /\ LET refs == doc.projects[gen.proj].refs
       IN IF gen.i > Len(refs)
          THEN RaiseFromGenerator("struct.error")
          ELSE LET check == refs[gen.i]
               IN IF check = PROJECTMODULES_Id
                  THEN /\ gen' = [gen EXCEPT !.phase = "modules", !.x = 0]
                       /\ UNCHANGED <<doc, modules, vba_code_all_modules, analysis_results,
                                      contains_macros, call, parser_pc, outcomes>>
                  ELSE IF check \in KnownReferenceIds
                  THEN /\ gen' = [gen EXCEPT !.i = gen.i + 1]
                       /\ UNCHANGED <<doc, modules, vba_code_all_modules, analysis_results,
                                      contains_macros, call, parser_pc, outcomes>>
                  ELSE \* log.error(...); sys.exit(0)
                       RaiseFromGenerator("SystemExit")

\* the stream a module record group names, as openstream finds it
ReadStream(p, streamname) == doc.projects[p].groups[streamname[2]].stream

\* one iteration of "for x in xrange(0, PROJECTMODULES_Count)": the record
\* group is read, the module stream is opened, cut at the text offset and
\* decompressed, and the module is yielded to the loop of the caller
ExtractModule ==
    /\ parser_pc = "extracting"
    /\ gen.phase = "modules"
    /\ gen.x < doc.projects[gen.proj].count
    /\ LET groups == doc.projects[gen.proj].groups
           group == groups[gen.x + 1]
           \* a record that is absent leaves the local variable as it was
           streamname == IF group.streamname.some THEN group.streamname ELSE gen.streamname
           textoffset == IF group.textoffset.some THEN group.textoffset ELSE gen.textoffset
           stream == ReadStream(gen.proj, streamname.v)
       IN IF gen.x + 1 > Len(groups)
          THEN RaiseFromGenerator("struct.error")
          ELSE IF ~streamname.some \/ ~textoffset.some
          THEN RaiseFromGenerator("UnboundLocalError")
          ELSE IF stream = "missing"
          THEN RaiseFromGenerator("IOError")
          ELSE IF stream = "bad"
          THEN RaiseFromGenerator("ValueError")
          ELSE /\ gen' = [gen EXCEPT !.x = gen.x + 1, !.streamname = streamname,
                                     !.textoffset = textoffset]
               /\ modules' = IF stream = "empty" THEN modules
                             ELSE Some(Append(modules.v,
                                       [stream |-> streamname.v, name |-> group.name,
                                        code |-> SourceOf(streamname.v)]))
               /\ UNCHANGED <<doc, vba_code_all_modules, analysis_results, contains_macros,
                              call, parser_pc, outcomes>>

\* the module loop of a project is over: _extract_vba returns, extract_macros
\* goes on to the next project
EndOfProject ==
    /\ parser_pc = "extracting"
    /\ gen.phase = "modules"
    /\ gen.x >= doc.projects[gen.proj].count
    /\ gen' = [gen EXCEPT !.proj = gen.proj + 1, !.phase = "project"]
    /\ UNCHANGED <<doc, modules, vba_code_all_modules, analysis_results, contains_macros,
                   call, parser_pc, outcomes>>

\* extract_macros is exhausted: extract_all_macros returns self.modules, and
\* analyze_macros goes on to build the source and scan it (and reveal, which
\* called it, to substitute)
FinishExtract ==
    /\ parser_pc = "extracting"
    /\ gen.phase = "project"
    /\ gen.proj > Len(doc.projects)
    /\ IF call.op = "extract_all_macros"
       THEN /\ EndCall("extract_all_macros", "return", modules, "none")
            /\ UNCHANGED <<vba_code_all_modules, analysis_results>>
       ELSE /\ vba_code_all_modules' = Some(BuildSource(modules.v))
            /\ analysis_results' = Some(Scan(vba_code_all_modules'.v, call.show, call.deob))
            /\ IF call.op = "reveal"
               THEN EndCall("reveal", "return", Some(RevealOf(analysis_results'.v)), "none")
               ELSE EndCall("analyze_macros", "return", analysis_results', "none")
    /\ UNCHANGED <<doc, modules, contains_macros>>


\* ------------------------------------------------------------------------
\* VBA_Parser.open_openxml, open_word2003xml, open_mht: the entries embedded
\* in a zip archive, a Word 2003 XML document or a MHTML document
\* ------------------------------------------------------------------------

\* most embedded entries of a container
MaxEntries == 3

VARIABLES
    container,      \* the input: its kind ("zip", "xml", "mht"), whether the
                    \* archive / XML / MIME parser accepts it, and what each
                    \* embedded entry turns out to be
    entry_index,    \* position of the loop over the entries
    ole_subfiles,   \* self.ole_subfiles: the entries a nested parser was built for
    open_pc,        \* "parse", "entries", "opened", "failed", "closed"
    archive,        \* the handle z of open_openxml: "none", "open", "closed"
    subfile_handles \* the entries whose nested parser holds an open ole_file

nestedVars == <<container, entry_index, ole_subfiles, open_pc, archive, subfile_handles>>

\* What an embedded entry can be.
\* "unreadable": z.open(subfile).read() raises (encrypted or damaged entry);
\* "bad_base64": binascii.a2b_base64(bindata.text) raises;
\* "plain":      no OLE magic, or no ActiveMime magic;
\* "bad_mso":    ActiveMime magic, but mso_file_extract raises RuntimeError;
\* "bad_ole":    the constructor of the nested VBA_Parser raises;
\* "ole":        the nested VBA_Parser is built.
EntryStates(kind) ==
    CASE kind = "zip" -> {"unreadable", "plain", "bad_ole", "ole"}
      [] kind = "xml" -> {"bad_base64", "plain", "bad_mso", "bad_ole", "ole"}
      [] kind = "mht" -> {"plain", "bad_mso", "bad_ole", "ole"}

ContainerType(kind) ==
    CASE kind = "zip" -> TYPE_OpenXML
      [] kind = "xml" -> TYPE_Word2003_XML
      [] kind = "mht" -> TYPE_MHTML

\* the failures of an entry that no try block inside the loop catches
Escapes(kind, entry) ==
    CASE kind = "zip" -> entry = "unreadable"
      [] kind = "xml" -> entry \in {"bad_base64", "bad_mso"}
      [] kind = "mht" -> FALSE

\* z = zipfile.ZipFile(_file) / et = ET.fromstring(data) /
\* mhtml = email.message_from_string(stripped_data)
ParseContainer ==
    /\ open_pc = "parse"
    /\ open_pc' = IF container.parses THEN "entries" ELSE "failed"
    \* zipfile.ZipFile closes its file itself when it cannot read the directory
    /\ archive' = IF container.kind = "zip" /\ container.parses THEN "open" ELSE archive
    /\ UNCHANGED <<container, entry_index, ole_subfiles, type, subfile_handles>>

\* one iteration of the loop over z.namelist() / et.getiterator(TAG_BINDATA) /
\* mhtml.walk()
OpenEntry ==
    /\ open_pc = "entries"
    /\ entry_index <= Len(container.entries)
    /\ LET entry == container.entries[entry_index]
       IN IF Escapes(container.kind, entry)
          THEN \* the except clause of the whole method logs and passes
               /\ open_pc' = "failed"
               /\ UNCHANGED <<entry_index, ole_subfiles, subfile_handles>>
          ELSE /\ ole_subfiles' = IF entry = "ole" THEN Append(ole_subfiles, entry_index)
                                  ELSE ole_subfiles
               \* open_ole of the nested parser: self.ole_file = olefile.OleFileIO(_file)
               /\ subfile_handles' = IF entry = "ole" THEN subfile_handles \cup {entry_index}
                                     ELSE subfile_handles
               /\ entry_index' = entry_index + 1
               /\ UNCHANGED open_pc
    /\ UNCHANGED <<container, type, archive>>

\* the loop is over: "set type only if parsing succeeds"
FinishOpen ==
    /\ open_pc = "entries"
    /\ entry_index > Len(container.entries)
    /\ type' = ContainerType(container.kind)
    /\ open_pc' = "opened"
    \* z.close(), the last statement but one of the try block of open_openxml
    /\ archive' = IF container.kind = "zip" THEN "closed" ELSE archive
    /\ UNCHANGED <<container, entry_index, ole_subfiles, subfile_handles>>

\* close() on the parser of the container: its ole_file is None, so close() is
\* called on every nested parser, which closes its ole_file. (After an opening
\* that failed the constructor goes on with the later rules, and the parser
\* exists when one of them applies.)
Close ==
    /\ open_pc \in {"opened", "failed"}
    /\ open_pc' = "closed"
    /\ subfile_handles' = subfile_handles \ {ole_subfiles[k] : k \in 1..Len(ole_subfiles)}
    /\ UNCHANGED <<container, entry_index, ole_subfiles, type, archive>>

\* the archive object z is local to open_openxml: once the method is left
\* through its except clause nothing refers to z any more, and the interpreter
\* closes the file when it collects the object, at a time of its choosing
CollectArchive ==
    /\ open_pc \in {"failed", "closed"}
    /\ archive = "open"
    /\ archive' = "closed"
    /\ UNCHANGED <<container, entry_index, ole_subfiles, type, open_pc, subfile_handles>>

\* ------------------------------------------------------------------------
\* The partial VBA grammar: vba_expr_int, vba_expr_str and their items.
\* A text is a sequence of character codes, positions are 0-based, and a
\* parser applied at a position gives a record: ok (it matched), end (the
\* position after the match), val (the token its parse action returned), tag
\* (the token is a VbaExpressionString), exc (the exception a parse action
\* raised, "none" otherwise).  With act = FALSE the parse actions are not
\* run, as in the lookahead of FollowedBy.
\* ------------------------------------------------------------------------

\* the character at a position, -1 beyond the end
Ch(text, loc) == IF loc >= 0 /\ loc < Len(text) THEN text[loc + 1] ELSE -1

IsDigit(c) == c \in 48..57

IsAlpha(c) == c \in 65..90 \/ c \in 97..122

\* vba_identifier_chars = alphanums + '_'
IsIdentifierChar(c) == IsAlpha(c) \/ IsDigit(c) \/ c = 95

\* Keyword.DEFAULT_KEYWORD_CHARS = alphanums + "_$"
IsKeywordChar(c) == IsIdentifierChar(c) \/ c = 36

\* the default whitespace of pyparsing: space, tab, newline, carriage return
IsWhite(c) == c \in {32, 9, 10, 13}

IsHexDigit(c) == IsDigit(c) \/ c \in 65..70 \/ c \in 97..102

Lower(c) == IF c \in 65..90 THEN c + 32 ELSE c

LowerText(s) == [i \in 1..Len(s) |-> Lower(s[i])]

\* s[::-1]
Reverse(s) == [i \in 1..Len(s) |-> s[Len(s) + 1 - i]]

\* s[a:b] with 0 <= a
Sub(s, a, b) == SubSeq(s, a + 1, IF b < Len(s) THEN b ELSE Len(s))

\* s.startswith(lit, loc)
StartsWith(s, loc, lit) ==
    /\ loc >= 0
    /\ loc + Len(lit) <= Len(s)
    /\ \A i \in 1..Len(lit) : s[loc + i] = lit[i]

\* the same, ignoring case; lit is in lower case
StartsWithCaseless(s, loc, lit) ==
    /\ loc >= 0
    /\ loc + Len(lit) <= Len(s)
    /\ \A i \in 1..Len(lit) : Lower(s[loc + i]) = lit[i]

\* s.replace(old, new): left to right, not overlapping; old is not empty
RECURSIVE ReplaceFrom(_, _, _, _)
ReplaceFrom(s, loc, old, new) ==
    TheOne({IF hits = {} THEN SubSeq(s, loc + 1, Len(s))
            ELSE SubSeq(s, loc + 1, Least(hits)) \o new
                    \o ReplaceFrom(s, Least(hits) + Len(old), old, new) :
            hits \in {{q \in loc..(Len(s) - 1) : StartsWith(s, q, old)}}})

Replace(s, old, new) == ReplaceFrom(s, 0, old, new)

\* the position of the first character at or after loc that is not whitespace
RECURSIVE SkipWhite(_, _)
SkipWhite(text, loc) ==
    IF IsWhite(Ch(text, loc)) THEN SkipWhite(text, loc + 1) ELSE loc

\* the position after the digits that start at loc
RECURSIVE SkipDigits(_, _)
SkipDigits(text, loc) ==
    IF IsDigit(Ch(text, loc)) THEN SkipDigits(text, loc + 1) ELSE loc

\* int(digits), base 10
RECURSIVE DecimalValue(_)
DecimalValue(digits) ==
    IF digits = <<>> THEN 0
    ELSE 10 * DecimalValue(SubSeq(digits, 1, Len(digits) - 1)) + (digits[Len(digits)] - 48)

\* '%d' % n, also what '%r' gives for an int
RECURSIVE DecimalText(_)
DecimalText(n) ==
    IF n < 0 THEN <<45>> \o DecimalText(-n)
    ELSE IF n < 10 THEN <<48 + n>>
    ELSE DecimalText(n \div 10) \o <<48 + (n % 10)>>

\* the results of a parser
NoMatch == [ok |-> FALSE, end |-> 0, val |-> <<>>, tag |-> FALSE, exc |-> "none"]

Match(end, val, tag) == [ok |-> TRUE, end |-> end, val |-> val, tag |-> tag, exc |-> "none"]

Throw(e) == [ok |-> FALSE, end |-> 0, val |-> <<>>, tag |-> FALSE, exc |-> e]

\* Literal(lit) after the whitespace: the position after it, -1 if it is not there
LiteralEnd(text, loc, lit) ==
    LET p == SkipWhite(text, loc)
    IN IF StartsWith(text, p, lit) THEN p + Len(lit) ELSE -1

\* WordStart(vba_identifier_chars)
WordStart(text, loc) == loc = 0 \/ ~IsIdentifierChar(Ch(text, loc - 1))

\* ------------------------------------------------------------------------
\* Tokens
\* ------------------------------------------------------------------------

\* decimal_literal: the digits, then at most one of the type suffixes % & ^
\* (the literals with the prefix &, &o or &h need a & that is directly
\* followed by a digit or a letter)
decimal_literal(text, loc0) ==
    LET loc == SkipWhite(text, loc0)
        e == SkipDigits(text, loc)
    IN IF ~WordStart(text, loc) \/ e = loc THEN NoMatch
       ELSE Match(IF Ch(text, e) \in {37, 38, 94} THEN e + 1 ELSE e,
                  DecimalValue(Sub(text, loc, e)), FALSE)

\* the regular expression of QuotedString('"', escQuote='""'), matched from
\* the position q after the opening quote: characters other than the quote and
\* line ends, or pairs of quotes, as many as possible, then the closing quote.
\* The position after the closing quote, -1 if there is no match.
RECURSIVE QuotedEnd(_, _)
QuotedEnd(text, q) ==
    LET c == Ch(text, q)
    IN IF c = -1 \/ c = 10 \/ c = 13 THEN -1
       ELSE IF c = 34
            THEN IF Ch(text, q + 1) = 34
                 THEN LET r == QuotedEnd(text, q + 2)
                      IN IF r # -1 THEN r ELSE q + 1
                 ELSE q + 1
            ELSE QuotedEnd(text, q + 1)

\* quoted_string: the text between the quotes, each pair of quotes in it
\* standing for one; a plain str
quoted_string(text, loc0) ==
    LET loc == SkipWhite(text, loc0)
        e == IF Ch(text, loc) = 34 THEN QuotedEnd(text, loc + 1) ELSE -1
    IN IF e = -1 THEN NoMatch
       ELSE Match(e, Replace(Sub(text, loc + 1, e - 1), <<34, 34>>, <<34>>), FALSE)

\* the position after the characters of the set S that start at loc
RECURSIVE SkipIn(_, _, _)
SkipIn(text, loc, S) ==
    IF Ch(text, loc) \in S THEN SkipIn(text, loc + 1, S) ELSE loc

\* the value of a digit in base 8 or 16
DigitValue(c) ==
    IF IsDigit(c) THEN c - 48 ELSE IF c \in 65..70 THEN c - 55 ELSE c - 87

\* int(digits, base)
RECURSIVE BaseValue(_, _)
BaseValue(digits, base) ==
    IF digits = <<>> THEN 0
    ELSE base * BaseValue(SubSeq(digits, 1, Len(digits) - 1), base)
            + DigitValue(digits[Len(digits)])

\* Suppress(Optional(Word('%&^', exact=1)))
SuffixEnd(text, e) == IF Ch(text, e) \in {37, 38, 94} THEN e + 1 ELSE e

\* octal_literal: & or &o, then octal digits
octal_literal(text, loc0) ==
    LET loc == SkipWhite(text, loc0)
        d == IF Lower(Ch(text, loc + 1)) = 111 THEN loc + 2 ELSE loc + 1
        e == SkipIn(text, d, 48..55)
    IN IF Ch(text, loc) # 38 \/ e = d THEN NoMatch
       ELSE Match(SuffixEnd(text, e), BaseValue(Sub(text, d, e), 8), FALSE)

\* hex_literal: &h, then hexadecimal digits
hex_literal(text, loc0) ==
    LET loc == SkipWhite(text, loc0)
        d == loc + 2
        e == SkipIn(text, d, (48..57) \cup (65..70) \cup (97..102))
    IN IF Ch(text, loc) # 38 \/ Lower(Ch(text, loc + 1)) # 104 \/ e = d THEN NoMatch
       ELSE Match(SuffixEnd(text, e), BaseValue(Sub(text, d, e), 16), FALSE)

\* integer = decimal_literal | octal_literal | hex_literal
integer(text, loc) ==
    IF decimal_literal(text, loc).ok THEN decimal_literal(text, loc)
    ELSE IF octal_literal(text, loc).ok THEN octal_literal(text, loc)
    ELSE hex_literal(text, loc)

\* ------------------------------------------------------------------------
\* Parse actions
\* ------------------------------------------------------------------------

\* unichr(i).encode('utf-8') for 255 < i; unichr raises ValueError for a code
\* that is negative or beyond 0x10FFFF (build with 4-byte unicode characters)
Utf8(i) ==
    IF i < 2048 THEN <<192 + (i \div 64), 128 + (i % 64)>>
    ELSE IF i < 65536
         THEN <<224 + (i \div 4096), 128 + ((i \div 64) % 64), 128 + (i % 64)>>
         ELSE <<240 + (i \div 262144), 128 + ((i \div 4096) % 64),
                128 + ((i \div 64) % 64), 128 + (i % 64)>>

\* the text 'Chr(%r)' % i
ChrPlaceholder(i) == <<67, 104, 114, 40>> \o DecimalText(i) \o <<41>>

\* vba_chr_tostr: the character, or the placeholder when ValueError is caught
vba_chr_tostr(i) ==
    IF i >= 0 /\ i <= 255 THEN <<i>>
    ELSE IF i < 0 \/ i > 1114111 THEN ChrPlaceholder(i)
    ELSE Utf8(i)

\* ord(t[0]): TypeError unless the string has one character
OrdRaises(s) == Len(s) # 1

\* t[0].strip()
RECURSIVE Strip(_)
Strip(s) ==
    IF s = <<>> THEN s
    ELSE IF s[1] \in {32, 9, 10, 13, 11, 12} THEN Strip(Tail(s))
    ELSE IF s[Len(s)] \in {32, 9, 10, 13, 11, 12} THEN Strip(SubSeq(s, 1, Len(s) - 1))
    ELSE s

\* int(s) raises ValueError unless s is digits after an optional sign
IntRaises(s) ==
    LET d == IF s # <<>> /\ s[1] \in {43, 45} THEN Tail(s) ELSE s
    IN d = <<>> \/ \E i \in 1..Len(d) : ~IsDigit(d[i])

IntOf(s) ==
    IF s[1] = 45 THEN -DecimalValue(Tail(s))
    ELSE IF s[1] = 43 THEN DecimalValue(Tail(s))
    ELSE DecimalValue(s)

\* binascii.a2b_hex on an even number of hexadecimal digits
a2b_hex(s) ==
    [i \in 1..(Len(s) \div 2) |-> 16 * DigitValue(s[2 * i - 1]) + DigitValue(s[2 * i])]

\* the characters of the base64 alphabet and their values
IsBase64Char(c) == IsAlpha(c) \/ IsDigit(c) \/ c = 43 \/ c = 47

Base64Value(c) ==
    IF c \in 65..90 THEN c - 65
    ELSE IF c \in 97..122 THEN c - 71
    ELSE IF IsDigit(c) THEN c + 4
    ELSE IF c = 43 THEN 62 ELSE 63

\* the bytes of one group of four characters, = being padding
Base64Group(g) ==
    LET n == 262144 * Base64Value(g[1]) + 4096 * Base64Value(g[2])
             + (IF g[3] = 61 THEN 0 ELSE 64 * Base64Value(g[3]))
             + (IF g[4] = 61 THEN 0 ELSE Base64Value(g[4]))
        bytes == <<n \div 65536, (n \div 256) % 256, n % 256>>
    IN IF g[3] = 61 THEN SubSeq(bytes, 1, 1)
       ELSE IF g[4] = 61 THEN SubSeq(bytes, 1, 2)
       ELSE bytes

\* base64.b64decode / binascii.a2b_base64 on a text that BASE64_RE matches
RECURSIVE b64decode(_)
b64decode(s) ==
    IF Len(s) < 4 THEN <<>>
    ELSE Base64Group(SubSeq(s, 1, 4)) \o b64decode(SubSeq(s, 5, Len(s)))

\* x / y on Python 2 integers: the floor of the quotient
FloorDiv(x, y) == IF y > 0 THEN x \div y ELSE (-x) \div (-y)

\* ''.join(strings)
RECURSIVE Join(_)
Join(strings) == IF strings = <<>> THEN <<>> ELSE Head(strings) \o Join(Tail(strings))

\* reduce(lambda x, y: x op y, integers) for the operator of character op;
\* sum(integers) for +
RECURSIVE Reduce(_, _)
Reduce(op, integers) ==
    IF Len(integers) = 1 THEN integers[1]
    ELSE LET x == Reduce(op, SubSeq(integers, 1, Len(integers) - 1))
             y == integers[Len(integers)]
         IN CASE op = 42 -> x * y
              [] op = 47 -> FloorDiv(x, y)
              [] op = 45 -> x - y
              [] op = 43 -> x + y

\* divide_ints_list raises ZeroDivisionError
DivideRaises(integers) == \E i \in 2..Len(integers) : integers[i] = 0

\* ------------------------------------------------------------------------
\* Items and expressions
\* ------------------------------------------------------------------------

\* the operators of infixNotation, tightest level first, by their character:
\* * / - + for vba_expr_int, + & for vba_expr_str
Operators(kind) == IF kind = "int" THEN <<42, 47, 45, 43>> ELSE <<43, 38>>

\* Combine(WordStart + 'Chr' + Optional('B' | 'W') + Optional('$')): the
\* position after it, -1 if it is not there
ChrEnd(text, loc0) ==
    LET loc == SkipWhite(text, loc0)
        b == IF Lower(Ch(text, loc + 3)) \in {98, 119} THEN loc + 4 ELSE loc + 3
    IN IF WordStart(text, loc) /\ StartsWithCaseless(text, loc, <<99, 104, 114>>)
       THEN (IF Ch(text, b) = 36 THEN b + 1 ELSE b)
       ELSE -1

\* CaselessKeyword(kw): the position after it, -1 if it is not there; the
\* character after the keyword is not one of the keyword characters
KeywordEnd(text, loc0, kw) ==
    LET loc == SkipWhite(text, loc0)
    IN IF StartsWithCaseless(text, loc, kw) /\ ~IsKeywordChar(Ch(text, loc + Len(kw)))
       THEN loc + Len(kw)
       ELSE -1

\* latin_identifier: a letter, then letters, digits and underscores
IdentifierEnd(text, loc0) ==
    LET loc == SkipWhite(text, loc0)
    IN IF IsAlpha(Ch(text, loc))
       THEN SkipIn(text, loc + 1, {c \in 48..122 : IsIdentifierChar(c)})
       ELSE -1

\* quoted_hex_string from the position after '(': pairs of hexadecimal
\* digits, two pairs at least, between quotes
quoted_hex_string(text, loc0) ==
    LET q == LiteralEnd(text, loc0, <<34>>)
        d == SkipWhite(text, q)
        h == SkipIn(text, d, {c \in 48..102 : IsHexDigit(c)}) - d
        e == d + 2 * (h \div 2)
        c == LiteralEnd(text, e, <<34>>)
    IN IF q = -1 \/ h < 4 \/ c = -1 THEN NoMatch
       ELSE Match(c, Sub(text, d, e), FALSE)

\* the optional last group of BASE64_RE at position p: its length
Base64TailLen(text, p) ==
    IF /\ IsBase64Char(Ch(text, p)) /\ IsBase64Char(Ch(text, p + 1))
       /\ Ch(text, p + 2) \in {65, 69, 73, 77, 81, 85, 89, 99, 103, 107, 111,
                               115, 119, 48, 52, 56}
       /\ Ch(text, p + 3) = 61
    THEN 4
    ELSE IF /\ IsBase64Char(Ch(text, p))
            /\ Ch(text, p + 1) \in {65, 81, 103, 119}
            /\ Ch(text, p + 2) = 61 /\ Ch(text, p + 3) = 61
         THEN 4
         ELSE 0

\* BASE64_RE matched at d: the position after the match, -1 if there is none
Base64End(text, d) ==
    LET h == SkipIn(text, d, {c \in 43..122 : IsBase64Char(c)}) - d
        p == d + 4 * (h \div 4)
    IN IF h < 4 THEN -1 ELSE p + Base64TailLen(text, p)

\* quoted_base64_string from the position after '('
quoted_base64_string(text, loc0) ==
    LET q == LiteralEnd(text, loc0, <<34>>)
        d == SkipWhite(text, q)
        e == Base64End(text, d)
        c == LiteralEnd(text, e, <<34>>)
    IN IF q = -1 \/ e = -1 \/ c = -1 THEN NoMatch
       ELSE Match(c, Sub(text, d, e), FALSE)

\* hex_function_call and base64_function_call: any identifier, '(', the
\* quoted string, ')'; the parse action decodes the string
encoded_function_call(text, loc, act, hex) ==
    LET i == IdentifierEnd(text, loc)
        p == LiteralEnd(text, i, <<40>>)
        s == IF hex THEN quoted_hex_string(text, p) ELSE quoted_base64_string(text, p)
        c == LiteralEnd(text, s.end, <<41>>)
    IN IF i = -1 \/ p = -1 \/ ~s.ok \/ c = -1 THEN NoMatch
       ELSE IF ~act THEN Match(c, <<>>, TRUE)
       ELSE Match(c, IF hex THEN a2b_hex(s.val) ELSE b64decode(s.val), TRUE)

hex_function_call(text, loc, act) == encoded_function_call(text, loc, act, TRUE)

base64_function_call(text, loc, act) == encoded_function_call(text, loc, act, FALSE)

RECURSIVE Level(_, _, _, _, _)
RECURSIVE FirstItem(_, _, _, _, _)
RECURSIVE Operands(_, _, _, _, _, _)
RECURSIVE Argument(_, _, _, _)

\* vba_expr_int and vba_expr_str: the loosest level of infixNotation
vba_expr_int(text, loc, act) == Level("int", 4, text, loc, act)

vba_expr_str(text, loc, act) == Level("str", 2, text, loc, act)

\* expression + ')' from the position p after '('
Closed(kind, text, p, act) ==
    TheOne({IF ~arg.ok THEN arg
            ELSE IF LiteralEnd(text, arg.end, <<41>>) = -1 THEN NoMatch
            ELSE Match(LiteralEnd(text, arg.end, <<41>>), arg.val, arg.tag) :
            arg \in {Level(kind, Len(Operators(kind)), text, p, act)}})

\* '(' + expression + ')' after a function name that ended at kw
Argument(kind, text, kw, act) ==
    IF kw = -1 \/ LiteralEnd(text, kw, <<40>>) = -1 THEN NoMatch
    ELSE Closed(kind, text, LiteralEnd(text, kw, <<40>>), act)

\* vba_chr with the parse action vba_chr_tostr
vba_chr(text, loc, act) ==
    TheOne({IF ~r.ok \/ ~act THEN r ELSE Match(r.end, vba_chr_tostr(r.val), TRUE) :
            r \in {Argument("int", text, ChrEnd(text, loc), act)}})

\* vba_asc with the parse action ord(t[0])
vba_asc(text, loc, act) ==
    TheOne({IF ~r.ok \/ ~act THEN r
            ELSE IF OrdRaises(r.val) THEN Throw("TypeError")
            ELSE Match(r.end, r.val[1], FALSE) :
            r \in {Argument("str", text, KeywordEnd(text, loc, <<97, 115, 99>>), act)}})

\* vba_val with the parse action int(t[0].strip())
vba_val(text, loc, act) ==
    TheOne({IF ~r.ok \/ ~act THEN r
            ELSE IF IntRaises(Strip(r.val)) THEN Throw("ValueError")
            ELSE Match(r.end, IntOf(Strip(r.val)), FALSE) :
            r \in {Argument("str", text, KeywordEnd(text, loc, <<118, 97, 108>>), act)}})

\* strReverse with the parse action str(t[0])[::-1]
strReverse(text, loc, act) ==
    TheOne({IF ~r.ok \/ ~act THEN r ELSE Match(r.end, Reverse(r.val), TRUE) :
            r \in {Argument("str", text,
                            KeywordEnd(text, loc,
                                       <<115, 116, 114, 114, 101, 118, 101, 114, 115, 101>>),
                            act)}})

\* environ with the parse action '%%%s%%' % t[0]
environ(text, loc, act) ==
    TheOne({IF ~r.ok \/ ~act THEN r ELSE Match(r.end, <<37>> \o r.val \o <<37>>, TRUE) :
            r \in {Argument("str", text,
                            KeywordEnd(text, loc, <<101, 110, 118, 105, 114, 111, 110>>),
                            act)}})

\* the alternatives of vba_expr_int_item and of vba_expr_str_item, in their order
Item(kind, i, text, loc, act) ==
    IF kind = "int"
    THEN CASE i = 1 -> vba_asc(text, loc, act)
           [] i = 2 -> vba_val(text, loc, act)
           [] i = 3 -> integer(text, loc)
    ELSE CASE i = 1 -> vba_chr(text, loc, act)
           [] i = 2 -> strReverse(text, loc, act)
           [] i = 3 -> environ(text, loc, act)
           [] i = 4 -> quoted_string(text, loc)
           [] i = 5 -> hex_function_call(text, loc, act)
           [] i = 6 -> base64_function_call(text, loc, act)

\* the operator | of the items, from alternative i: the first alternative
\* that matches; an exception of a parse action goes through
FirstItem(kind, i, text, loc, act) ==
    TheOne({IF r.ok \/ r.exc # "none" \/ i = (IF kind = "int" THEN 3 ELSE 6) THEN r
            ELSE FirstItem(kind, i + 1, text, loc, act) :
            r \in {Item(kind, i, text, loc, act)}})

\* OneOrMore(opExpr + lastExpr) of level k from loc: the operands found so
\* far are in vals; it stops before an operator that no operand follows
Operands(kind, k, text, loc, act, vals) ==
    IF LiteralEnd(text, loc, <<Operators(kind)[k]>>) = -1
    THEN [end |-> loc, vals |-> vals, exc |-> "none"]
    ELSE TheOne({IF r.exc # "none" THEN [end |-> loc, vals |-> vals, exc |-> r.exc]
                 ELSE IF ~r.ok THEN [end |-> loc, vals |-> vals, exc |-> "none"]
                 ELSE Operands(kind, k, text, r.end, act, Append(vals, r.val)) :
                 r \in {Level(kind, k - 1, text,
                              LiteralEnd(text, loc, <<Operators(kind)[k]>>), act)}})

\* a variant of the parse actions in which concat_strings_list returns a
\* plain str
LevelAction_plain(kind, k, end, vals) ==
    IF kind = "str" THEN Match(end, Join(vals), FALSE)
    ELSE IF Operators(kind)[k] = 47 /\ DivideRaises(vals) THEN Throw("ZeroDivisionError")
    ELSE Match(end, Reduce(Operators(kind)[k], vals), FALSE)

\* the parse action of level k on the operands
LevelAction(kind, k, end, vals) ==
    IF kind = "str" THEN Match(end, Join(vals), TRUE)
    ELSE IF Operators(kind)[k] = 47 /\ DivideRaises(vals) THEN Throw("ZeroDivisionError")
    ELSE Match(end, Reduce(Operators(kind)[k], vals), FALSE)

\* FollowedBy(lastExpr + opExpr + lastExpr), a being lastExpr without parse
\* actions at the position
Followed(kind, k, text, a) ==
    /\ a.ok
    /\ LiteralEnd(text, a.end, <<Operators(kind)[k]>>) # -1
    /\ Level(kind, k - 1, text, LiteralEnd(text, a.end, <<Operators(kind)[k]>>), FALSE).ok

\* Group(lastExpr + OneOrMore(opExpr + lastExpr)) with the parse action of
\* the level, first being lastExpr at the position
Grouped(kind, k, text, first, act) ==
    IF ~first.ok THEN first
    ELSE TheOne({IF rest.exc # "none" THEN Throw(rest.exc)
                 ELSE IF ~act THEN Match(rest.end, <<>>, TRUE)
                 ELSE LevelAction(kind, k, rest.end, rest.vals) :
                 rest \in {Operands(kind, k, text, first.end, act, <<first.val>>)}})

\* one level of infixNotation.  Level 0 is the item or the whole expression
\* in parentheses; level k is, when an operand, the operator of the level
\* and an operand follow (FollowedBy, without parse actions), the group of
\* all the operands with the parse action of the level, and level k - 1
\* otherwise
Level(kind, k, text, loc, act) ==
    IF k = 0
    THEN TheOne({IF item.ok \/ item.exc # "none" THEN item
                 ELSE IF LiteralEnd(text, loc, <<40>>) = -1 THEN NoMatch
                 ELSE Closed(kind, text, LiteralEnd(text, loc, <<40>>), act) :
                 item \in {FirstItem(kind, 1, text, loc, act)}})
    ELSE TheOne({TheOne({IF Followed(kind, k, text, a)
                         THEN Grouped(kind, k, text, first, act)
                         ELSE first :
                         first \in {IF act THEN Level(kind, k - 1, text, loc, TRUE) ELSE a}}) :
                 a \in {Level(kind, k - 1, text, loc, FALSE)}})

\* ------------------------------------------------------------------------
\* detect_vba_strings and reveal
\* ------------------------------------------------------------------------

\* the column of the character at place t, the character at place i being
\* in column col and no tab standing between them
ColumnAt(s, i, col, t) ==
    IF \E j \in i..(t - 1) : s[j] \in {10, 13}
    THEN (t - 1) - (CHOOSE j \in i..(t - 1) :
                        /\ s[j] \in {10, 13}
                        /\ \A k \in (j + 1)..(t - 1) : s[k] \notin {10, 13})
    ELSE col + (t - i)

\* s.expandtabs(): a tab becomes the spaces up to the next multiple of 8
\* columns, the column starting again after a line end; the text between
\* two tabs is taken over in one step
RECURSIVE ExpandFrom(_, _, _)
ExpandFrom(s, i, col) ==
    TheOne({IF tabs = {} THEN SubSeq(s, i, Len(s))
            ELSE SubSeq(s, i, Least(tabs) - 1)
                    \o [j \in 1..(8 - (ColumnAt(s, i, col, Least(tabs)) % 8)) |-> 32]
                    \o ExpandFrom(s, Least(tabs) + 1, 0) :
            tabs \in {{j \in i..Len(s) : s[j] = 9}}})

expandtabs(s) == ExpandFrom(s, 1, 0)

\* an encoded text is in found exactly when a result has it
InFound(results, encoded) == \E i \in 1..Len(results) : results[i][1] = encoded

\* the positions at which the loop over scanString tries the expression
\* from loc on: after the whitespace at loc, and, as no match moves one
\* character on, after the whitespace at each position behind
TriedFrom(text, loc) ==
    {q \in SkipWhite(text, loc)..Len(text) : SkipWhite(text, q) = q}

\* the position the loop stood at when it tried the expression at preloc
LocOf(text, loc, preloc) ==
    IF \E q \in TriedFrom(text, loc) : q < preloc
    THEN 1 + CHOOSE q \in TriedFrom(text, loc) :
                /\ q < preloc
                /\ \A o \in TriedFrom(text, loc) : o < preloc => o <= q
    ELSE loc

\* the loop over vba_expr_str.scanString(vba_code), from position loc: the
\* expression is tried after the whitespace at each position; no match moves
\* one character on, a match gives (tokens, start, end) and moves to its end;
\* an exception of a parse action leaves scanString and detect_vba_strings.
\* The positions without a match are passed over in one step.
RECURSIVE ScanFrom(_, _, _)
ScanFrom(text, loc, results) ==
    IF loc > Len(text) THEN [exc |-> "none", results |-> results]
    ELSE TheOne({
        IF hits = {} THEN [exc |-> "none", results |-> results]
        ELSE TheOne({
            LET encoded == Sub(text, Least(hits), r.end)
                decoded == r.val
            IN IF r.exc # "none" THEN [exc |-> r.exc, results |-> <<>>]
               ELSE IF r.end <= LocOf(text, loc, Least(hits))
                    THEN ScanFrom(text, r.end + 1, results)
               ELSE IF r.tag /\ ~InFound(results, encoded) /\ decoded # encoded
                    THEN TheOne({ScanFrom(text, r.end, found) :
                                 found \in {Append(results, <<encoded, decoded>>)}})
                    ELSE ScanFrom(text, r.end, results) :
            r \in {vba_expr_str(text, Least(hits), TRUE)}}) :
        hits \in {{q \in TriedFrom(text, loc) :
                      \E r \in {vba_expr_str(text, q, TRUE)} : r.exc # "none" \/ r.ok}}})

\* detect_vba_strings: the pairs (encoded, decoded), or the exception
detect_vba_strings(code) ==
    TheOne({ScanFrom(text, 0, <<>>) : text \in {expandtabs(code)}})

\* string.printable: digits, letters, punctuation, space, \t \n \r \x0b \x0c
is_printable(s) == \A i \in 1..Len(s) : s[i] \in (32..126) \cup (9..13)

\* the pairs of self.vba_strings that scan puts in the results when
\* include_decoded_strings is False
RECURSIVE PrintableResults(_)
PrintableResults(strings) ==
    IF strings = <<>> THEN <<>>
    ELSE (IF is_printable(strings[1][2]) THEN <<strings[1]>> ELSE <<>>)
            \o PrintableResults(Tail(strings))

\* sorted(analysis, key=len(encoded), reverse=True): the longest encoded text
\* first, the order of the list kept among equal lengths
RECURSIVE SortedByLength(_)
SortedByLength(analysis) ==
    IF analysis = <<>> THEN <<>>
    ELSE LET m == CHOOSE i \in 1..Len(analysis) :
                    /\ \A j \in 1..Len(analysis) : Len(analysis[j][1]) <= Len(analysis[i][1])
                    /\ \A j \in 1..(i - 1) : Len(analysis[j][1]) < Len(analysis[i][1])
         IN <<analysis[m]>>
            \o SortedByLength(SubSeq(analysis, 1, m - 1) \o SubSeq(analysis, m + 1, Len(analysis)))

\* the loop of reveal: each encoded text is replaced by its decoded text
\* between quotes, the quotes in it doubled
RECURSIVE RevealLoop(_, _)
RevealLoop(deobf, analysis) ==
    IF analysis = <<>> THEN deobf
    ELSE RevealLoop(Replace(deobf, analysis[1][1],
                            <<34>> \o Replace(analysis[1][2], <<34>>, <<34, 34>>) \o <<34>>),
                    Tail(analysis))

reveal(code, strings) == RevealLoop(code, SortedByLength(PrintableResults(strings)))

\* ------------------------------------------------------------------------
\* The evaluation of one integer expression, and the deobfuscation of one
\* source text: detect_vba_strings, the replacement of reveal, and
\* detect_vba_strings on the text so obtained
\* ------------------------------------------------------------------------

\* the greatest number of operands of an arithmetic expression
MaxOperands == 3

\* the greatest number of fragments of a source text
MaxFragments == 2

VARIABLES expr_text, expr_result, expr_pc

VARIABLES vba_code, vba_strings, deobf_code, vba_strings_again, deobf_exc, deobf_pc

exprVars == <<expr_text, expr_result, expr_pc>>

deobfVars == <<vba_code, vba_strings, deobf_code, vba_strings_again, deobf_exc, deobf_pc>>

\* the integer atoms of the arithmetic expressions
AtomValues == {0, 2, 3, 8}

\* the text of the expression with these atoms and these operators between them
RECURSIVE ArithmeticText(_, _)
ArithmeticText(atoms, ops) ==
    IF Len(atoms) = 1 THEN DecimalText(atoms[1])
    ELSE ArithmeticText(SubSeq(atoms, 1, Len(atoms) - 1), SubSeq(ops, 1, Len(ops) - 1))
            \o <<ops[Len(ops)]>> \o DecimalText(atoms[Len(atoms)])

ArithmeticTexts ==
    UNION {{ArithmeticText(atoms, ops) :
                atoms \in [1..n -> AtomValues], ops \in [1..(n - 1) -> {42, 47, 45, 43}]} :
           n \in 1..MaxOperands}

\* string expressions: "A"  "AB"  ""  Chr(66)  StrReverse("AB")
\* and two of them joined by &
StringItems ==
    {<<34, 65, 34>>,
     <<34, 65, 66, 34>>,
     <<34, 34>>,
     <<67, 104, 114, 40, 54, 54, 41>>,
     <<83, 116, 114, 82, 101, 118, 101, 114, 115, 101, 40, 34, 65, 66, 34, 41>>}

StringTexts ==
    StringItems \cup {a \o <<32, 38, 32>> \o b : a, b \in StringItems}

\* Asc( string expression )
AscTexts == {<<65, 115, 99, 40>> \o s \o <<41>> : s \in StringTexts}

\* the fragments of the source texts:
\*   Chr(10)
\*   "Chr(65)"
\*   "A" + "B"
\*   ("A")
\*   Chr(0-1)
\*   Chr(8/0)
\*   Chr(Val("x"))
\*   Chr(Asc("AB"))
\*   x("4142")
\*   StrReverse("AB")
Fragments ==
    {<<67, 104, 114, 40, 49, 48, 41>>,
     <<34, 67, 104, 114, 40, 54, 53, 41, 34>>,
     <<34, 65, 34, 32, 43, 32, 34, 66, 34>>,
     <<40, 34, 65, 34, 41>>,
     <<67, 104, 114, 40, 48, 45, 49, 41>>,
     <<67, 104, 114, 40, 56, 47, 48, 41>>,
     <<67, 104, 114, 40, 86, 97, 108, 40, 34, 120, 34, 41, 41>>,
     <<67, 104, 114, 40, 65, 115, 99, 40, 34, 65, 66, 34, 41, 41>>,
     <<120, 40, 34, 52, 49, 52, 50, 34, 41>>,
     <<83, 116, 114, 82, 101, 118, 101, 114, 115, 101, 40, 34, 65, 66, 34, 41>>}

\* what stands between two fragments: " & " or a line end
Separators == {<<32, 38, 32>>, <<10>>}

RECURSIVE SourceTextsOf(_)
SourceTextsOf(n) ==
    IF n = 1 THEN Fragments
    ELSE {t \o s \o f : t \in SourceTextsOf(n - 1), s \in Separators, f \in Fragments}

SourceTexts == UNION {SourceTextsOf(n) : n \in 1..MaxFragments}

\* vba_expr_int applied to the whole text
Evaluate ==
    /\ expr_pc = "text"
    /\ expr_result' = vba_expr_int(expr_text, 0, TRUE)
    /\ expr_pc' = "evaluated"
    /\ UNCHANGED expr_text

\* self.vba_strings = detect_vba_strings(self.code)
DetectVbaStrings ==
    /\ deobf_pc = "source"
    /\ LET r == detect_vba_strings(vba_code)
       IN /\ vba_strings' = r.results
          /\ deobf_exc' = r.exc
          /\ deobf_pc' = IF r.exc = "none" THEN "detected" ELSE "aborted"
    /\ UNCHANGED <<vba_code, deobf_code, vba_strings_again>>

\* reveal on the results of the scan
Reveal ==
    /\ deobf_pc = "detected"
    /\ deobf_code' = reveal(vba_code, vba_strings)
    /\ deobf_pc' = "revealed"
    /\ UNCHANGED <<vba_code, vba_strings, vba_strings_again, deobf_exc>>

\* detect_vba_strings on the text that reveal returned
DetectAgain ==
    /\ deobf_pc = "revealed"
    /\ LET r == detect_vba_strings(deobf_code)
       IN /\ vba_strings_again' = r.results
          /\ deobf_exc' = r.exc
          /\ deobf_pc' = IF r.exc = "none" THEN "detected_again" ELSE "aborted_again"
    /\ UNCHANGED <<vba_code, vba_strings, deobf_code>>

\* ------------------------------------------------------------------------
\* VBA_Scanner: the encoded strings of the code, the keywords and patterns of
\* the code and of the decoded buffers, and the list of findings
\* ------------------------------------------------------------------------

\* the greatest number of lines of a scanned text
MaxLines == 2

VARIABLES scan_code, include_decoded_strings, deobfuscate, keyword_order

VARIABLES hex_strings, base64_strings, autoexec_keywords, suspicious_keywords, iocs

VARIABLES scan_results, scan_pc

VARIABLES
    code_buffers,   \* self.code_hex, self.code_hex_rev, self.code_rev_hex,
                    \* self.code_base64, self.code_dridex and self.code_vba
    scans           \* the calls of scan on this scanner so far

\* self.vba_strings is the variable vba_strings
scannerVars ==
    <<scan_code, include_decoded_strings, deobfuscate, keyword_order, hex_strings,
      base64_strings, autoexec_keywords, suspicious_keywords, iocs, scan_results, scan_pc,
      code_buffers, scans>>

\* vba_collapse_long_lines: a line that ends with " _" is joined with the next
vba_collapse_long_lines(c) ==
    Replace(Replace(Replace(c, <<32, 95, 13, 10>>, <<32>>), <<32, 95, 13>>, <<32>>),
            <<32, 95, 10>>, <<32>>)

\* the elements of a sequence, the first of equal ones kept: found
RECURSIVE Distinct(_, _)
Distinct(values, n) ==
    IF n = 0 THEN <<>>
    ELSE IF \E j \in 1..(n - 1) : values[j] = values[n] THEN Distinct(values, n - 1)
    ELSE Append(Distinct(values, n - 1), values[n])

\* re_hex_string at position p: four pairs of hexadecimal digits or more, as
\* many as possible; the position after the match, -1 if there is none
HexEnd(text, p) ==
    TheOne({IF e - p >= 8 THEN p + 2 * ((e - p) \div 2) ELSE -1 :
            e \in {SkipIn(text, p, {c \in 48..102 : IsHexDigit(c)})}})

\* re_hex_string.finditer from position p: the matches from the first
\* position with a match on, not overlapping
RECURSIVE HexMatches(_, _)
HexMatches(text, p) ==
    TheOne({IF hits = {} THEN <<>>
            ELSE TheOne({<<Sub(text, Least(hits), e)>> \o HexMatches(text, e) :
                         e \in {HexEnd(text, Least(hits))}}) :
            hits \in {{q \in p..(Len(text) - 1) : HexEnd(text, q) # -1}}})

\* detect_hex_strings: the pairs (encoded, decoded)
detect_hex_strings(c) ==
    TheOne({[i \in 1..Len(values) |-> <<values[i], a2b_hex(values[i])>>] :
            values \in {Distinct(HexMatches(c, 0), Len(HexMatches(c, 0)))}})

\* re_base64_string at position p: a quote, BASE64_RE, a quote; the position
\* after the match, -1 if there is none
QuotedBase64End(text, p) ==
    IF Ch(text, p) = 34 /\ Base64End(text, p + 1) # -1
       /\ Ch(text, Base64End(text, p + 1)) = 34
    THEN Base64End(text, p + 1) + 1
    ELSE -1

\* re_base64_string.finditer from position p: the matches from the first
\* position with a match on, without their quotes
RECURSIVE Base64Matches(_, _)
Base64Matches(text, p) ==
    TheOne({IF hits = {} THEN <<>>
            ELSE TheOne({<<Sub(text, Least(hits) + 1, e - 1)>> \o Base64Matches(text, e) :
                         e \in {QuotedBase64End(text, Least(hits))}}) :
            hits \in {{q \in p..(Len(text) - 1) : QuotedBase64End(text, q) # -1}}})

\* re_nothex_check.search(value): a letter that is no hexadecimal digit
NotHex(value) == \E i \in 1..Len(value) : value[i] \in (71..90) \cup (103..122)

\* a variant of the whitelist without the token test
BASE64_WHITELIST_short ==
    {<<116, 104, 105, 115, 100, 111, 99, 117, 109, 101, 110, 116>>,
     <<116, 104, 105, 115, 119, 111, 114, 107, 98, 111, 111, 107>>,
     <<116, 101, 109, 112>>,
     <<104, 116, 116, 112>>,
     <<111, 112, 101, 110>>,
     <<101, 120, 105, 116>>}

\* BASE64_WHITELIST: thisdocument thisworkbook test temp http open exit
BASE64_WHITELIST ==
    {<<116, 104, 105, 115, 100, 111, 99, 117, 109, 101, 110, 116>>,
     <<116, 104, 105, 115, 119, 111, 114, 107, 98, 111, 111, 107>>,
     <<116, 101, 115, 116>>,
     <<116, 101, 109, 112>>,
     <<104, 116, 116, 112>>,
     <<111, 112, 101, 110>>,
     <<101, 120, 105, 116>>}

\* the values that detect_base64_strings keeps: not only hexadecimal digits,
\* not in the whitelist when in lower case, the first of equal ones
Base64Values(c) ==
    TheOne({Distinct(kept, Len(kept)) :
            kept \in {SelectSeq(Base64Matches(c, 0),
                                LAMBDA value : NotHex(value)
                                               /\ LowerText(value) \notin BASE64_WHITELIST)}})

\* detect_base64_strings: the pairs (encoded, decoded)
detect_base64_strings(c) ==
    TheOne({[i \in 1..Len(values) |-> <<values[i], b64decode(values[i])>>] :
            values \in {Base64Values(c)}})

\* detect_dridex_strings on a code without a match of re_dridex_string
detect_dridex_strings(c) == <<>>

\* \b at position p: a word character on one side only
WordBoundary(text, p) == IsIdentifierChar(Ch(text, p - 1)) # IsIdentifierChar(Ch(text, p))

\* the regular expression \b keyword \b, ignoring case, matches at position
\* p; a dot of the keyword stands for any character but the line feed
KeywordAt(text, p, keyword) ==
    /\ WordBoundary(text, p)
    /\ p + Len(keyword) <= Len(text)
    /\ \A i \in 1..Len(keyword) :
          IF keyword[i] = 46 THEN text[p + i] # 10
          ELSE Lower(text[p + i]) = Lower(keyword[i])
    /\ WordBoundary(text, p + Len(keyword))

\* re.search(r'(?i)\b' + keyword + r'\b', vba_code)
KeywordFound(text, keyword) == \E p \in 0..Len(text) : KeywordAt(text, p, keyword)

\* of AUTOEXEC_KEYWORDS: AutoOpen
AUTOEXEC_KEYWORDS ==
    <<<<<<65, 117, 116, 111, 79, 112, 101, 110>>, "Runs when the Word document is opened">>>>

\* of SUSPICIOUS_KEYWORDS: Chr, SbieDll.dll; the order of the items of the
\* dictionary is not fixed by the code
SUSPICIOUS_KEYWORDS(order) ==
    LET table == <<<<<<67, 104, 114>>, "May attempt to obfuscate specific strings">>,
                   <<<<83, 98, 105, 101, 68, 108, 108, 46, 100, 108, 108>>, "May detect Sandboxie">>>>
    IN [i \in 1..Len(order) |-> table[order[i]]]

\* detect_autoexec and detect_suspicious: the pairs (keyword, description
\* with the obfuscation) of the keywords of the table that the code holds
RECURSIVE detect_keywords(_, _, _, _)
detect_keywords(table, n, text, obfuscation) ==
    IF n = 0 THEN <<>>
    ELSE detect_keywords(table, n - 1, text, obfuscation)
            \o (IF KeywordFound(text, table[n][1])
                THEN <<<<table[n][1], <<table[n][2], obfuscation>>>>>>
                ELSE <<>>)

\* of the extensions of the pattern of executable file names: EXE, DLL
Extensions == <<<<101, 120, 101>>, <<100, 108, 108>>>>

\* the pattern \b\w+\.(EXE|...)\b at position p, ignoring case: the position
\* after the match, -1 if there is none
ExecutableEnd(text, p) ==
    LET q == SkipIn(text, p, {c \in 48..122 : IsIdentifierChar(c)})
        exts == {i \in 1..Len(Extensions) :
                    /\ StartsWithCaseless(text, q + 1, Extensions[i])
                    /\ ~IsIdentifierChar(Ch(text, q + 1 + Len(Extensions[i])))}
    IN IF WordBoundary(text, p) /\ q > p /\ Ch(text, q) = 46 /\ exts # {}
       THEN q + 1 + Len(Extensions[CHOOSE i \in exts : \A j \in exts : i <= j])
       ELSE -1

\* pattern_re.finditer from position p: the matches from the first position
\* with a match on
RECURSIVE PatternMatches(_, _)
PatternMatches(text, p) ==
    TheOne({IF hits = {} THEN <<>>
            ELSE TheOne({<<Sub(text, Least(hits), e)>> \o PatternMatches(text, e) :
                         e \in {ExecutableEnd(text, Least(hits))}}) :
            hits \in {{q \in p..(Len(text) - 1) : ExecutableEnd(text, q) # -1}}})

\* detect_patterns on a code without URL, IPv4 address and e-mail address:
\* the pairs (pattern type with the obfuscation, value), each value once
detect_patterns(text, obfuscation) ==
    TheOne({[i \in 1..Len(values) |-> <<<<"Executable file name", obfuscation>>, values[i]>>] :
            values \in {Distinct(PatternMatches(text, 0), Len(PatternMatches(text, 0)))}})

\* '\n' + decoded for each pair, in a row: self.code_hex, self.code_base64,
\* self.code_dridex, self.code_vba
RECURSIVE DecodedBuffer(_)
DecodedBuffer(strings) ==
    IF strings = <<>> THEN <<>>
    ELSE <<10>> \o strings[1][2] \o DecodedBuffer(Tail(strings))

\* 'strreverse' in self.code.lower()
strReverseInCode(c) ==
    \E p \in 0..Len(c) :
        StartsWithCaseless(c, p, <<115, 116, 114, 114, 101, 118, 101, 114, 115, 101>>)

\* self.code_hex_rev: the decoded strings reversed, when the code holds StrReverse
code_hex_rev(c, strings) ==
    IF strReverseInCode(c)
    THEN DecodedBuffer([i \in 1..Len(strings) |-> <<strings[i][1], Reverse(strings[i][2])>>])
    ELSE <<>>

\* self.code_rev_hex: the encoded strings reversed, then decoded
code_rev_hex(c, strings) ==
    IF strReverseInCode(c)
    THEN DecodedBuffer([i \in 1..Len(strings) |-> <<strings[i][1], a2b_hex(Reverse(strings[i][1]))>>])
    ELSE <<>>

\* the buffers as the constructor sets them: ''
EmptyBuffers ==
    [hex |-> <<>>, hex_rev |-> <<>>, rev_hex |-> <<>>, base64 |-> <<>>, dridex |-> <<>>,
     vba |-> <<>>]

\* the buffers after the loops of scan that append the decoded strings
Appended(codes, c, hex, b64, dridex, vba) ==
    [hex |-> codes.hex \o DecodedBuffer(hex),
     hex_rev |-> codes.hex_rev \o code_hex_rev(c, hex),
     rev_hex |-> codes.rev_hex \o code_rev_hex(c, hex),
     base64 |-> codes.base64 \o DecodedBuffer(b64),
     dridex |-> codes.dridex \o DecodedBuffer(dridex),
     vba |-> codes.vba \o DecodedBuffer(vba)]

\* the codes that scan searches, with their obfuscation, in the order of the loop
Buffers(c, codes) ==
    <<<<c, "">>,
      <<codes.hex, "Hex">>,
      <<codes.hex_rev, "Hex+StrReverse">>,
      <<codes.rev_hex, "StrReverse+Hex">>,
      <<codes.base64, "Base64">>,
      <<codes.dridex, "Dridex">>,
      <<codes.vba, "VBA expression">>>>

\* the loop over the codes for one of the three detections
RECURSIVE AutoexecOf(_, _)
AutoexecOf(buffers, n) ==
    IF n = 0 THEN <<>>
    ELSE AutoexecOf(buffers, n - 1)
            \o detect_keywords(AUTOEXEC_KEYWORDS, Len(AUTOEXEC_KEYWORDS),
                               buffers[n][1], buffers[n][2])

RECURSIVE SuspiciousOf(_, _, _)
SuspiciousOf(buffers, n, order) ==
    IF n = 0 THEN <<>>
    ELSE SuspiciousOf(buffers, n - 1, order)
            \o detect_keywords(SUSPICIOUS_KEYWORDS(order), Len(order),
                               buffers[n][1], buffers[n][2])

RECURSIVE IocsOf(_, _)
IocsOf(buffers, n) ==
    IF n = 0 THEN <<>>
    ELSE IocsOf(buffers, n - 1) \o detect_patterns(buffers[n][1], buffers[n][2])

\* the items that scan adds to the suspicious keywords when encoded strings
\* were found: Hex Strings, Base64 Strings, Dridex Strings, VBA obfuscated Strings
EncodedStringsFound(hex, b64, dridex, vba) ==
    (IF hex # <<>> THEN <<<<<<72, 101, 120, 32, 83, 116, 114, 105, 110, 103, 115>>, <<"Hex-encoded strings were detected", "">>>>>> ELSE <<>>)
    \o (IF b64 # <<>> THEN <<<<<<66, 97, 115, 101, 54, 52, 32, 83, 116, 114, 105, 110, 103, 115>>, <<"Base64-encoded strings were detected", "">>>>>> ELSE <<>>)
    \o (IF dridex # <<>> THEN <<<<<<68, 114, 105, 100, 101, 120, 32, 83, 116, 114, 105, 110, 103, 115>>, <<"Dridex-encoded strings were detected", "">>>>>> ELSE <<>>)
    \o (IF vba # <<>> THEN <<<<<<86, 66, 65, 32, 111, 98, 102, 117, 115, 99, 97, 116, 101, 100, 32, 83, 116, 114, 105, 110, 103, 115>>, <<"VBA string expressions were detected", "">>>>>> ELSE <<>>)

\* a variant of the loop with keyword_set in which the last of the pairs with
\* one text is kept
RECURSIVE KeywordSet_last(_, _, _, _)
KeywordSet_last(kind, pairs, key, n) ==
    IF n = 0 THEN <<>>
    ELSE IF \E j \in (n + 1)..Len(pairs) : pairs[j][key] = pairs[n][key]
         THEN KeywordSet_last(kind, pairs, key, n - 1)
         ELSE Append(KeywordSet_last(kind, pairs, key, n - 1),
                     <<kind, pairs[n][key], pairs[n][3 - key]>>)

\* the loop with keyword_set over the first n pairs: a finding (kind, text,
\* description) for each pair whose text, at place key of the pair, was not
\* met before
RECURSIVE KeywordSet(_, _, _, _)
KeywordSet(kind, pairs, key, n) ==
    IF n = 0 THEN <<>>
    ELSE IF \E j \in 1..(n - 1) : pairs[j][key] = pairs[n][key]
         THEN KeywordSet(kind, pairs, key, n - 1)
         ELSE Append(KeywordSet(kind, pairs, key, n - 1),
                     <<kind, pairs[n][key], pairs[n][3 - key]>>)

\* the decoded strings that scan puts in the results: all with
\* include_decoded_strings, the printable ones otherwise
RECURSIVE DecodedStrings(_, _, _)
DecodedStrings(kind, strings, include) ==
    IF strings = <<>> THEN <<>>
    ELSE (IF include \/ is_printable(strings[1][2])
          THEN <<<<kind, strings[1][2], strings[1][1]>>>>
          ELSE <<>>)
            \o DecodedStrings(kind, Tail(strings), include)

\* a variant of the list of results with the suspicious keywords first
Results_swapped(autoexec, suspicious, ioc, decoded) ==
    KeywordSet("Suspicious", suspicious, 1, Len(suspicious))
        \o KeywordSet("AutoExec", autoexec, 1, Len(autoexec))
        \o KeywordSet("IOC", ioc, 2, Len(ioc))
        \o decoded

\* the list of results: the keywords of each kind, then the decoded strings
Results(autoexec, suspicious, ioc, decoded) ==
    KeywordSet("AutoExec", autoexec, 1, Len(autoexec))
        \o KeywordSet("Suspicious", suspicious, 1, Len(suspicious))
        \o KeywordSet("IOC", ioc, 2, Len(ioc))
        \o decoded

\* scan, first part: the encoded strings of the code; an exception of
\* detect_vba_strings leaves scan
DetectEncodedStrings ==
    /\ scan_pc = "code"
    /\ hex_strings' = detect_hex_strings(scan_code)
    /\ base64_strings' = detect_base64_strings(scan_code)
    /\ \E r \in {IF deobfuscate THEN detect_vba_strings(scan_code)
                 ELSE [exc |-> "none", results |-> <<>>]} :
          /\ vba_strings' = IF r.exc = "none" THEN r.results ELSE vba_strings
          /\ code_buffers' =
                Appended(code_buffers, scan_code, hex_strings', base64_strings',
                         detect_dridex_strings(scan_code),
                         IF r.exc = "none" THEN r.results ELSE <<>>)
          /\ scan_pc' = IF r.exc = "none" THEN "strings" ELSE "aborted"
    /\ UNCHANGED <<scan_code, include_decoded_strings, deobfuscate, keyword_order,
                   autoexec_keywords, suspicious_keywords, iocs, scan_results, scans>>

\* scan, second part: the keywords and the patterns of the code and of the
\* decoded strings
DetectKeywords ==
    /\ scan_pc = "strings"
    /\ \E buffers \in {Buffers(scan_code, code_buffers)} :
          /\ autoexec_keywords' = AutoexecOf(buffers, 7)
          /\ suspicious_keywords' =
                SuspiciousOf(buffers, 7, keyword_order)
                    \o EncodedStringsFound(hex_strings, base64_strings,
                                           detect_dridex_strings(scan_code), vba_strings)
          /\ iocs' = IocsOf(buffers, 7)
    /\ scan_pc' = "keywords"
    /\ UNCHANGED <<scan_code, include_decoded_strings, deobfuscate, keyword_order,
                   hex_strings, base64_strings, vba_strings, scan_results, code_buffers,
                   scans>>

\* scan, last part: the list of results
BuildResults ==
    /\ scan_pc = "keywords"
    /\ scan_results' =
          Results(autoexec_keywords, suspicious_keywords, iocs,
                  DecodedStrings("Hex String", hex_strings, include_decoded_strings)
                      \o DecodedStrings("Base64 String", base64_strings, include_decoded_strings)
                      \o DecodedStrings("Dridex string", detect_dridex_strings(scan_code),
                                        include_decoded_strings)
                      \o DecodedStrings("VBA string", vba_strings, include_decoded_strings))
    /\ scan_pc' = "scanned"
    /\ UNCHANGED <<scan_code, include_decoded_strings, deobfuscate, keyword_order,
                   hex_strings, base64_strings, vba_strings, autoexec_keywords,
                   suspicious_keywords, iocs, code_buffers, scans>>

\* most calls of scan on one scanner
MaxScans == 2

\* scan called once more on a scanner: with its own arguments, on the code
\* and the buffers that the scanner holds
ScanAgain ==
    /\ scan_pc \in {"scanned", "aborted"}
    /\ scans < MaxScans
    /\ scans' = scans + 1
    /\ include_decoded_strings' \in BOOLEAN
    /\ deobfuscate' \in BOOLEAN
    /\ scan_pc' = "code"
    /\ UNCHANGED <<scan_code, keyword_order, hex_strings, base64_strings, vba_strings,
                   autoexec_keywords, suspicious_keywords, iocs, scan_results,
                   code_buffers>>

\* the lines of the scanned texts:
\*   AutoOpen
\*   4175746F4F70656E
\*   SbieDll.dll
\*   "dGVzdA=="
\*   "test"
\*   Chr(65)
\* (no line has a match of re_dridex_string, a URL, an IPv4 address or an
\* e-mail address, and no keyword of the tables but the ones above)
Lines ==
    {<<65, 117, 116, 111, 79, 112, 101, 110>>,
     <<52, 49, 55, 53, 55, 52, 54, 70, 52, 70, 55, 48, 54, 53, 54, 69>>,
     <<83, 98, 105, 101, 68, 108, 108, 46, 100, 108, 108>>,
     <<34, 100, 71, 86, 122, 100, 65, 61, 61, 34>>,
     <<34, 116, 101, 115, 116, 34>>,
     <<67, 104, 114, 40, 54, 53, 41>>}

RECURSIVE CodesOf(_)
CodesOf(n) ==
    IF n = 1 THEN Lines
    ELSE {c \o <<10>> \o l : c \in CodesOf(n - 1), l \in Lines}

Codes == UNION {CodesOf(n) : n \in 1..MaxLines}

\* the lines of the texts scanned more than once:
\*   AutoOpen
\*   4175746F4F70656E
\*   "Ch" & "r"
\*   "a" & "b"
LinesAgain ==
    {<<65, 117, 116, 111, 79, 112, 101, 110>>,
     <<52, 49, 55, 53, 55, 52, 54, 70, 52, 70, 55, 48, 54, 53, 54, 69>>,
     <<34, 67, 104, 34, 32, 38, 32, 34, 114, 34>>,
     <<34, 97, 34, 32, 38, 32, 34, 98, 34>>}

CodesAgain == LinesAgain \cup {c \o <<10>> \o l : c \in LinesAgain, l \in LinesAgain}

\* ------------------------------------------------------------------------
\* VBA_Parser on an OLE file: find_vba_projects and detect_vba_macros
\* ------------------------------------------------------------------------

\* most calls of find_vba_projects and detect_vba_macros on one parser
MaxFinds == 3

VARIABLES
    ole_entries,        \* the storages and streams of self.ole_file: a set of
                        \* [path, type], a path being a sequence of names
    ole_listing,        \* ole.listdir(streams=False, storages=True)
    vba_projects,       \* self.vba_projects
    ole_contains_macros,\* self.contains_macros of this parser
    finder_returns      \* what each finished call returned, in order

finderVars == <<ole_entries, ole_listing, vba_projects, ole_contains_macros, finder_returns>>

Upper(c) == IF c \in 97..122 THEN c - 32 ELSE c

\* unicode.upper()
UpperText(s) == [i \in 1..Len(s) |-> Upper(s[i])]

\* the names the code spells out: 'VBA', 'PROJECT', '_VBA_PROJECT', 'dir'
Name_VBA == <<86, 66, 65>>

Name_PROJECT == <<80, 82, 79, 74, 69, 67, 84>>

Name_VBA_PROJECT == <<95, 86, 66, 65, 95, 80, 82, 79, 74, 69, 67, 84>>

Name_dir == <<100, 105, 114>>

\* olefile compares the names of a path without regard to case
SamePath(p, q) ==
    /\ Len(p) = Len(q)
    /\ \A i \in 1..Len(p) : LowerText(p[i]) = LowerText(q[i])

\* ole.exists(full_path) and ole.get_type(full_path) == olefile.STGTY_STREAM
check_vba_stream_any(ole, vba_root, stream_path) ==
    \E e \in ole : SamePath(e.path, vba_root \o stream_path)

check_vba_stream(ole, vba_root, stream_path) ==
    \E e \in ole : SamePath(e.path, vba_root \o stream_path) /\ e.type = "stream"

\* the body of the loop for one storage: the project it appends, if any
ProjectOf(ole, storage) ==
    LET vba_root == SubSeq(storage, 1, Len(storage) - 1)
    IN IF UpperText(storage[Len(storage)]) # Name_VBA THEN <<>>
       ELSE IF ~check_vba_stream(ole, vba_root, <<Name_PROJECT>>) THEN <<>>
       ELSE IF ~check_vba_stream(ole, vba_root, <<Name_VBA, Name_VBA_PROJECT>>) THEN <<>>
       ELSE IF ~check_vba_stream(ole, vba_root, <<Name_VBA, Name_dir>>) THEN <<>>
       ELSE <<[vba_root |-> vba_root,
               project_path |-> vba_root \o <<Name_PROJECT>>,
               dir_path |-> vba_root \o <<Name_VBA, Name_dir>>]>>

\* for storage in ole.listdir(streams=False, storages=True): ...
RECURSIVE FindProjects(_, _)
FindProjects(ole, listing) ==
    IF listing = <<>> THEN <<>>
    ELSE ProjectOf(ole, Head(listing)) \o FindProjects(ole, Tail(listing))

\* find_vba_projects() on a parser whose ole_file is set
CallFindVbaProjects ==
    /\ Len(finder_returns) < MaxFinds
    /\ vba_projects' = IF vba_projects.some THEN vba_projects
                       ELSE Some(FindProjects(ole_entries, ole_listing))
    /\ finder_returns' = Append(finder_returns, [op |-> "find_vba_projects",
                                                 list |-> vba_projects'.v,
                                                 found |-> FALSE])
    /\ UNCHANGED <<ole_entries, ole_listing, ole_contains_macros>>

\* detect_vba_macros() on a parser whose ole_file is set
CallDetectVbaMacros ==
    /\ Len(finder_returns) < MaxFinds
    /\ IF ole_contains_macros.some
       THEN UNCHANGED <<vba_projects, ole_contains_macros>>
       ELSE /\ vba_projects' = IF vba_projects.some THEN vba_projects
                               ELSE Some(FindProjects(ole_entries, ole_listing))
            /\ ole_contains_macros' = Some(Len(vba_projects'.v) # 0)
    /\ finder_returns' = Append(finder_returns, [op |-> "detect_vba_macros",
                                                 list |-> <<>>,
                                                 found |-> ole_contains_macros'.v])
    /\ UNCHANGED <<ole_entries, ole_listing>>

\* the names of storages in the documents looked at
Name_vba == <<118, 98, 97>>

Name_Macros == <<77, 97, 99, 114, 111, 115>>

\* what may stand under one root storage: a PROJECT entry, and a storage
\* named VBA in some case with its entries _VBA_PROJECT and dir
EntryTypes == {"absent", "stream", "storage"}

UnderRoot(root) ==
    {({[path |-> root \o <<Name_PROJECT>>, type |-> t] : t \in {project} \ {"absent"}}
      \cup (IF name = <<>> THEN {}
            ELSE {[path |-> root \o <<name>>, type |-> "storage"]}
                 \cup {[path |-> root \o <<name, Name_VBA_PROJECT>>, type |-> t] :
                          t \in {vba_project} \ {"absent"}}
                 \cup {[path |-> root \o <<name, Name_dir>>, type |-> t] :
                          t \in {dir} \ {"absent"}})) :
        project \in EntryTypes, name \in {<<>>, Name_VBA, Name_vba},
        vba_project \in EntryTypes, dir \in EntryTypes}

\* the OLE files: entries under the root of the file and under a storage Macros
OleFiles ==
    {top \cup {[path |-> <<Name_Macros>>, type |-> "storage"]} \cup sub :
        top \in UnderRoot(<<>>), sub \in UnderRoot(<<Name_Macros>>)}

StoragesOf(ole) == {e.path : e \in {x \in ole : x.type = "storage"}}

\* the storages in one order
RECURSIVE InSomeOrder(_)
InSomeOrder(paths) ==
    IF paths = {} THEN <<>>
    ELSE LET first == CHOOSE p \in paths : TRUE
         IN <<first>> \o InSomeOrder(paths \ {first})

\* the orders in which listdir may give the storages: the order of the
\* directory tree of the file, which the code does not rely on
Listings(ole) == {InSomeOrder(StoragesOf(ole)), Reverse(InSomeOrder(StoragesOf(ole)))}

\* ------------------------------------------------------------------------
\* TracerBase: the deferred breakpoints and _throwdownBreaks
\* ------------------------------------------------------------------------

\* most breakpoints in the deferred list of a tracer
MaxBreaks == 3

\* the addresses that resolveAddress gives
BreakAddresses == {4096, 8192}

VARIABLES
    bps,            \* the breakpoint objects, by id: what resolveAddress returns,
                    \* what isEnabled returns, whether activate raises
    deferred,       \* self.deferred: a list of breakpoints
    breakpoints,    \* self.breakpoints: a dictionary from addresses to breakpoints
    deferred_index, \* the place of the iterator of "for bp in self.deferred"
    to_activate,    \* what is left of self.breakpoints.values() in the second loop
    breaks_pc       \* "rest", "resolving", "activating", "done"

breakVars == <<bps, deferred, breakpoints, deferred_index, to_activate, breaks_pc>>

\* list.remove(x): the list without the first of the items equal to x
RECURSIVE Remove(_, _)
Remove(list, x) ==
    IF list = <<>> THEN <<>>
    ELSE IF Head(list) = x THEN Tail(list)
    ELSE <<Head(list)>> \o Remove(Tail(list), x)

\* self.breakpoints[addr] = bp
SetItem(dict, addr, bp) == [a \in DOMAIN dict \cup {addr} |-> IF a = addr THEN bp ELSE dict[a]]

\* one iteration of "for bp in self.deferred": the iterator gives the item at
\* its place, a breakpoint that resolves is removed from the list and stored
\* under its address; the loop ends when the place is beyond the list
ResolveDeferred ==
    /\ breaks_pc = "resolving"
    /\ IF deferred_index < Len(deferred)
       THEN \E bp \in {deferred[deferred_index + 1]} :
               /\ IF bps[bp].addr.some
                  THEN /\ deferred' = Remove(deferred, bp)
                       /\ breakpoints' = SetItem(breakpoints, bps[bp].addr.v, bp)
                  ELSE UNCHANGED <<deferred, breakpoints>>
               /\ deferred_index' = deferred_index + 1
               /\ UNCHANGED <<to_activate, breaks_pc>>
       ELSE /\ to_activate' = {breakpoints[a] : a \in DOMAIN breakpoints}
            /\ breaks_pc' = "activating"
            /\ UNCHANGED <<deferred, breakpoints, deferred_index>>
    /\ UNCHANGED bps

\* one iteration of "for bp in self.breakpoints.values()", in the order the
\* dictionary gives: _activateBreak(bp); the loop ends when no value is left
ActivateBreak ==
    /\ breaks_pc = "activating"
    /\ IF to_activate # {}
       THEN \E bp \in to_activate :
               /\ to_activate' = to_activate \ {bp}
               /\ deferred' = IF bps[bp].enabled /\ bps[bp].raises
                              THEN Append(deferred, bp)
                              ELSE deferred
               /\ UNCHANGED breaks_pc
       ELSE /\ breaks_pc' = "done"
            /\ UNCHANGED <<to_activate, deferred>>
    /\ UNCHANGED <<bps, breakpoints, deferred_index>>

\* the breakpoint objects
BreakObjects ==
    [addr : {NoneValue} \cup {Some(a) : a \in BreakAddresses},
     enabled : BOOLEAN, raises : BOOLEAN]

\* ------------------------------------------------------------------------
\* threadwrap and TracerThread: the calls proxied through one thread
\* ------------------------------------------------------------------------

\* the threads other than the TracerThread that call wrapped methods
MaxCallers == 2

\* most calls of a wrapped method by one thread
MaxProxyCalls == 2

Callers == 1..MaxCallers

\* what the wrapped function does when it runs: it returns a value that is
\* no exception, it returns an instance of Exception as its value, it raises
\* an instance of Exception, or it raises what is no subclass of Exception
\* (KeyboardInterrupt, SystemExit)
Doings == {"return", "return_exception", "raise_exception", "raise_other"}

VARIABLES
    thread,         \* self.thread of the tracer: "TracerThread" or "None"
    thread_queue,   \* self.queue of the TracerThread: requests, and "None"
    qobj,           \* the item that run took from the queue and is serving
    tracer_pc,      \* the TracerThread: "get", "execute", "exited"
    reply,          \* for each caller the Queue q of its call
    pending,        \* for each caller the call it waits for
    calls_made,     \* for each caller the number of its calls so far
    enqueued,       \* the requests put on the queue of the thread, in order
    executed,       \* the functions run, in order, with the thread they ran on
    proxy_outcomes  \* for each call that ended in its caller: what the function
                    \* did, and what the caller got: a value "returned", an
                    \* exception of the call "raised", or "AttributeError"

proxyVars == <<thread, thread_queue, qobj, tracer_pc, reply, pending, calls_made,
               enqueued, executed, proxy_outcomes>>

NoRequest == [id |-> <<0, 0>>, does |-> "none", nested |-> FALSE]

\* None as an item of the queue of the thread
NoneItem == [id |-> <<0, 0>>, does |-> "None", nested |-> FALSE]

\* what run puts on the queue of the caller: queue.put(meth(*args, **kwargs)),
\* and queue.put(e) in "except Exception, e"; the bare except puts nothing
Answer(request) ==
    IF request.does = "return"
    THEN <<[exception |-> FALSE, of |-> request.id]>>
    ELSE IF request.does \in {"return_exception", "raise_exception"}
    THEN <<[exception |-> TRUE, of |-> request.id]>>
    ELSE <<>>

\* trfunc in a thread that is no TracerThread, up to q.get(): the request is
\* put on the queue of self.thread; without a thread the attribute queue of
\* None raises AttributeError in the caller
CallWrapped(c) ==
    /\ pending[c] = NoRequest
    /\ calls_made[c] < MaxProxyCalls
    /\ calls_made' = [calls_made EXCEPT ![c] = calls_made[c] + 1]
    /\ \E does \in Doings, nested \in BOOLEAN :
          \E request \in {[id |-> <<c, calls_made[c] + 1>>, does |-> does, nested |-> nested]} :
             IF thread = "None"
             THEN /\ proxy_outcomes' =
                        proxy_outcomes \cup {[id |-> request.id, does |-> request.does,
                                              got |-> "AttributeError", value |-> <<0, 0>>]}
                  /\ UNCHANGED <<thread_queue, reply, pending, enqueued>>
             ELSE /\ thread_queue' = Append(thread_queue, request)
                  /\ enqueued' = Append(enqueued, request.id)
                  /\ reply' = [reply EXCEPT ![c] = <<>>]
                  /\ pending' = [pending EXCEPT ![c] = request]
                  /\ UNCHANGED proxy_outcomes
    /\ UNCHANGED <<thread, qobj, tracer_pc, executed>>

\* trfunc from ret = q.get() on: an answer that is an instance of Exception is
\* raised, another one returned
ReceiveAnswer(c) ==
    /\ pending[c] # NoRequest
    /\ reply[c] # <<>>
    /\ \E ret \in {Head(reply[c])} :
          proxy_outcomes' =
              proxy_outcomes \cup {[id |-> pending[c].id, does |-> pending[c].does,
                                    got |-> IF ret.exception THEN "raised" ELSE "returned",
                                    value |-> ret.of]}
    /\ reply' = [reply EXCEPT ![c] = Tail(reply[c])]
    /\ pending' = [pending EXCEPT ![c] = NoRequest]
    /\ UNCHANGED <<thread, thread_queue, qobj, tracer_pc, calls_made, enqueued, executed>>

\* run: qobj = self.queue.get(); None ends the loop
GetRequest ==
    /\ tracer_pc = "get"
    /\ thread_queue # <<>>
    /\ thread_queue' = Tail(thread_queue)
    /\ IF Head(thread_queue) = NoneItem
       THEN tracer_pc' = "exited" /\ UNCHANGED qobj
       ELSE tracer_pc' = "execute" /\ qobj' = Head(thread_queue)
    /\ UNCHANGED <<thread, reply, pending, calls_made, enqueued, executed, proxy_outcomes>>

\* run: the function is called and its answer put on the queue of the call; a
\* wrapped method that the function calls runs in trfunc at once, this
\* thread being a TracerThread
ExecuteRequest ==
    /\ tracer_pc = "execute"
    /\ executed' = executed
                      \o <<[id |-> qobj.id, on |-> "TracerThread", queued |-> TRUE]>>
                      \o (IF qobj.nested
                          THEN <<[id |-> qobj.id, on |-> "TracerThread", queued |-> FALSE]>>
                          ELSE <<>>)
    /\ reply' = [reply EXCEPT ![qobj.id[1]] = reply[qobj.id[1]] \o Answer(qobj)]
    /\ qobj' = NoRequest
    /\ tracer_pc' = "get"
    /\ UNCHANGED <<thread, thread_queue, pending, calls_made, enqueued, proxy_outcomes>>

\* _tellThreadExit up to the end of join(timeout=2), which returns when the
\* thread has ended or the time is over
TellThreadExit ==
    /\ thread = "TracerThread"
    /\ ~\E i \in 1..Len(enqueued) : enqueued[i] = <<0, 0>>
    /\ thread_queue' = Append(thread_queue, NoneItem)
    /\ enqueued' = Append(enqueued, <<0, 0>>)
    /\ UNCHANGED <<thread, qobj, tracer_pc, reply, pending, calls_made, executed,
                   proxy_outcomes>>

\* _tellThreadExit, last statement: self.thread = None
ForgetThread ==
    /\ thread = "TracerThread"
    /\ \E i \in 1..Len(enqueued) : enqueued[i] = <<0, 0>>
    /\ thread' = "None"
    /\ UNCHANGED <<thread_queue, qobj, tracer_pc, reply, pending, calls_made, enqueued,
                   executed, proxy_outcomes>>
\* ------------------------------------------------------------------------
\* Inputs of decompress_stream
\* ------------------------------------------------------------------------

\* low and high byte of the first chunk header: sizes 3, 5, 6, 257, 258 (or 4097,
\* 4098 with the high size nibble set); compressed (0xB0), raw with size
\* nibble 0xF (0x3F), compressed with signature bits 0b010 (0xA0)
HeaderLow == {0, 2, 3, 254, 255}

HeaderHigh == {176, 63, 160}

\* flag bytes, literals, copy-token halves and header halves of later chunks
BodyBytes == {0, 1, 2, 16, 176}

Bodies == UNION {[1..n -> BodyBytes] : n \in 0..MaxBody}

SmallInputs ==
    {<<>>, <<0>>, <<1>>, <<1, 255>>} \cup
    {<<1, lo, hi>> \o body : lo \in HeaderLow, hi \in HeaderHigh, body \in Bodies}

\* one raw chunk of 4096 bytes
RawChunkVector == <<1, 255, 63>> \o [i \in 1..4096 |-> i % 256]

\* a raw chunk, then a compressed chunk whose copy token reaches back into it
TwoChunkVector == RawChunkVector \o <<3, 176, 2, 65, 0, 16>>

\* two literals, a copy token of length 16, then a copy token unpacked with
\* a bit count of 5
BitCount5Vector == <<1, 6, 176, 12, 65, 66, 13, 16, 1, 16>>

ExampleVectors == {RawChunkVector, TwoChunkVector, BitCount5Vector}

\* ------------------------------------------------------------------------
\* Inputs of VBA_Parser.__init__ and of mso_file_extract
\* ------------------------------------------------------------------------

\* every combination of test outcomes; an open_* can fail only if it is called
Files ==
    [isOleFile : BOOLEAN, ole_parses : BOOLEAN,
     is_zipfile : BOOLEAN, zip_parses : BOOLEAN,
     has_wordml_namespace : BOOLEAN, xml_parses : BOOLEAN,
     has_mime_tokens : BOOLEAN, mht_parses : BOOLEAN,
     has_nul : BOOLEAN]

\* lengths below and above the 0x20 bytes the header field needs
MsoLengths == {20, 31, 32, 700}

\* values of the 16-bit field at 0x1E: declared offsets 47 and 60
MsoHeaderValues == {1, 14}

MsoXPositions == {12, 50, 60, 600}

MsoInflatablePositions == {12, 47, 50, 60, 554, 600}

MsoFiles ==
    {[len |-> n, hdr |-> h, x_positions |-> xs, inflatable |-> zs] :
        n \in MsoLengths, h \in MsoHeaderValues,
        xs \in SUBSET MsoXPositions, zs \in SUBSET MsoInflatablePositions}

\* the positions lie inside the data, and data too short for the header field
\* has no such field
MsoFileOK(d) ==
    /\ \A p \in d.x_positions \cup d.inflatable : p < d.len
    /\ d.len < 32 => d.hdr = 1

\* ------------------------------------------------------------------------
\* Compound documents
\* ------------------------------------------------------------------------

Group(p, j, hasName, hasOffset, stream) ==
    [name |-> <<p, j>>,
     streamname |-> IF hasName THEN Some(<<p, j>>) ELSE NoneValue,
     textoffset |-> IF hasOffset THEN Some(0) ELSE NoneValue,
     stream |-> stream]

StreamStates == {"ok", "bad", "empty", "missing"}

\* the record groups module j of project p can have: both records with any
\* stream state, or one or both of the optional records absent
GroupsAt(p, j) ==
    {Group(p, j, TRUE, TRUE, s) : s \in StreamStates} \cup
    {Group(p, j, FALSE, TRUE, "ok"), Group(p, j, TRUE, FALSE, "ok"),
     Group(p, j, FALSE, FALSE, "ok")}

GroupSeqs(p) ==
    UNION {{gs \in [1..n -> UNION {GroupsAt(p, j) : j \in 1..n}] :
               \A j \in 1..n : gs[j] \in GroupsAt(p, j)} : n \in 0..MaxModules}

ReferenceIds == KnownReferenceIds \cup {PROJECTMODULES_Id, 16}

ReferenceArrays == UNION {[1..n -> ReferenceIds] : n \in 0..MaxRefs}

Project(refs, count, groups) == [refs |-> refs, count |-> count, groups |-> groups]

SimpleProject(p, stream) ==
    Project(<<PROJECTMODULES_Id>>, 1, <<Group(p, 1, TRUE, TRUE, stream)>>)

\* one project whose module record groups vary
ModuleDocs ==
    {[projects |-> <<Project(<<PROJECTMODULES_Id>>, c, gs)>>, forms |-> <<>>] :
        c \in 0..MaxModules, gs \in GroupSeqs(1)}

\* one project whose reference array varies
ReferenceDocs ==
    {[projects |-> <<Project(refs, 1, <<Group(1, 1, TRUE, TRUE, "ok")>>)>>,
      forms |-> <<>>] : refs \in ReferenceArrays}

\* no project, and two projects, with and without a form string
ProjectDocs ==
    {[projects |-> <<>>, forms |-> <<>>]} \cup
    {[projects |-> <<SimpleProject(1, s1), SimpleProject(2, s2)>>, forms |-> fs] :
        s1 \in {"ok", "bad"}, s2 \in {"ok", "bad"}, fs \in {<<>>, <<<<0, 1>>>>}}

Docs == ModuleDocs \cup ReferenceDocs \cup ProjectDocs

\* ------------------------------------------------------------------------
\* Specifications: one per component, the other components at rest
\* ------------------------------------------------------------------------

\* the components that follow the scanner
extraVars == <<finderVars, breakVars, proxyVars>>

vars == <<codecVars, detectVars, msoVars, parserVars, nestedVars, exprVars, deobfVars, scannerVars,
         extraVars>>

\* what each component leaves alone
besidesCodec == <<detectVars, msoVars, parserVars, nestedVars, exprVars, deobfVars, scannerVars,
      extraVars>>

besidesDetect == <<codecVars, msoVars, parserVars, nestedVars, exprVars, deobfVars, scannerVars,
      extraVars>>

besidesMso == <<codecVars, detectVars, parserVars, nestedVars, exprVars, deobfVars, scannerVars,
      extraVars>>

besidesParser == <<codecVars, detectVars, msoVars, nestedVars, exprVars, deobfVars, scannerVars,
      extraVars>>

besidesNested ==
    <<codecVars, msoVars, parserVars, file, opened, init_pc, exprVars, deobfVars, scannerVars,
      extraVars>>

CodecAtRest ==
    /\ compressed_container = <<>>
    /\ compressed_current = 0
    /\ decompressed_container = <<>>
    /\ compressed_chunk_start = 0
    /\ compressed_chunk_header = -1
    /\ compressed_end = 0
    /\ decompressed_chunk_start = 0
    /\ flag_byte = 0
    /\ bit_index = 0
    /\ offset = 0
    /\ copy_source = 0
    /\ pc = "rest"
    /\ err = "none"

DetectAtRest ==
    /\ file = [isOleFile |-> TRUE, ole_parses |-> TRUE,
               is_zipfile |-> FALSE, zip_parses |-> FALSE,
               has_wordml_namespace |-> FALSE, xml_parses |-> FALSE,
               has_mime_tokens |-> FALSE, mht_parses |-> FALSE, has_nul |-> TRUE]
    /\ type = "None"
    /\ opened = <<>>
    /\ init_pc = "rest"

MsoAtRest ==
    /\ mso_data = [len |-> 32, hdr |-> 1, x_positions |-> {}, inflatable |-> {}]
    /\ mso_pc = "rest"
    /\ mso_index = 1
    /\ mso_tried = <<>>

ParserAtRest ==
    /\ doc = [projects |-> <<>>, forms |-> <<>>]
    /\ modules = NoneValue
    /\ vba_code_all_modules = NoneValue
    /\ analysis_results = NoneValue
    /\ contains_macros = NoneValue
    /\ call = NoCall
    /\ gen = NoGen
    /\ parser_pc = "rest"
    /\ outcomes = <<>>

NestedAtRest ==
    /\ container = [kind |-> "zip", parses |-> TRUE, entries |-> <<>>]
    /\ entry_index = 1
    /\ ole_subfiles = <<>>
    /\ open_pc = "rest"
    /\ archive = "none"
    /\ subfile_handles = {}

ExprAtRest ==
    /\ expr_text = <<>>
    /\ expr_result = NoMatch
    /\ expr_pc = "rest"

DeobfAtRest ==
    /\ vba_code = <<>>
    /\ vba_strings = <<>>
    /\ deobf_code = <<>>
    /\ vba_strings_again = <<>>
    /\ deobf_exc = "none"
    /\ deobf_pc = "rest"

ScannerAtRest ==
    /\ scan_code = <<>>
    /\ include_decoded_strings = FALSE
    /\ deobfuscate = FALSE
    /\ keyword_order = <<1, 2>>
    /\ hex_strings = <<>>
    /\ base64_strings = <<>>
    /\ autoexec_keywords = <<>>
    /\ suspicious_keywords = <<>>
    /\ iocs = <<>>
    /\ scan_results = <<>>
    /\ scan_pc = "rest"
    /\ code_buffers = EmptyBuffers
    /\ scans = 0

FinderAtRest ==
    /\ ole_entries = {}
    /\ ole_listing = <<>>
    /\ vba_projects = NoneValue
    /\ ole_contains_macros = NoneValue
    /\ finder_returns = <<>>

BreaksAtRest ==
    /\ bps = <<>>
    /\ deferred = <<>>
    /\ breakpoints = <<>>
    /\ deferred_index = 0
    /\ to_activate = {}
    /\ breaks_pc = "rest"

ProxyAtRest ==
    /\ thread = "None"
    /\ thread_queue = <<>>
    /\ qobj = NoRequest
    /\ tracer_pc = "exited"
    /\ reply = [c \in Callers |-> <<>>]
    /\ pending = [c \in Callers |-> NoRequest]
    /\ calls_made = [c \in Callers |-> MaxProxyCalls]
    /\ enqueued = <<>>
    /\ executed = <<>>
    /\ proxy_outcomes = {}

ExtraAtRest == FinderAtRest /\ BreaksAtRest /\ ProxyAtRest

olderVars ==
    <<codecVars, detectVars, msoVars, parserVars, nestedVars, exprVars, deobfVars, scannerVars>>

besidesFinder == <<olderVars, breakVars, proxyVars>>

besidesBreaks == <<olderVars, finderVars, proxyVars>>

besidesProxy == <<olderVars, finderVars, breakVars>>

besidesExpr == <<codecVars, detectVars, msoVars, parserVars, nestedVars, deobfVars, scannerVars,
      extraVars>>

besidesDeobf == <<codecVars, detectVars, msoVars, parserVars, nestedVars, exprVars, scannerVars,
      extraVars>>

besidesScanner ==
    <<codecVars, detectVars, msoVars, parserVars, nestedVars, exprVars,
      vba_code, deobf_code, vba_strings_again, deobf_exc, deobf_pc, extraVars>>

InitCodec ==
    /\ compressed_container \in SmallInputs \cup ExampleVectors
    /\ compressed_current = 0
    /\ decompressed_container = <<>>
    /\ compressed_chunk_start = 0
    /\ compressed_chunk_header = -1
    /\ compressed_end = 0
    /\ decompressed_chunk_start = 0
    /\ flag_byte = 0
    /\ bit_index = 0
    /\ offset = 0
    /\ copy_source = 0
    /\ pc = "start"
    /\ err = "none"
    /\ DetectAtRest /\ MsoAtRest /\ ParserAtRest /\ NestedAtRest
    /\ ExprAtRest /\ DeobfAtRest /\ ScannerAtRest /\ ExtraAtRest

NextCodec ==
    \/ CheckSignature /\ UNCHANGED besidesCodec
    \/ Return /\ UNCHANGED besidesCodec
    \/ ReadChunkHeader /\ UNCHANGED besidesCodec
    \/ DecompressRawChunk /\ UNCHANGED besidesCodec
    \/ EndOfChunk /\ UNCHANGED besidesCodec
    \/ ReadFlagByte /\ UNCHANGED besidesCodec
    \/ EndOfTokenSequence /\ UNCHANGED besidesCodec
    \/ LiteralToken /\ UNCHANGED besidesCodec
    \/ CopyToken /\ UNCHANGED besidesCodec

SpecCodec == InitCodec /\ [][NextCodec]_vars

\* the inputs on which termination is checked: chunk bodies of flag bytes 0x00,
\* 0x01 and 0x02, literals, copy-token halves and halves of later chunk headers
TerminationInputs ==
    {c \in SmallInputs : \A i \in 4..Len(c) : c[i] \in {0, 1, 2, 176}} \cup ExampleVectors

InitCodecFair == InitCodec /\ compressed_container \in TerminationInputs

\* decompress_stream is one call that runs on: no step of it waits for anything
SpecCodecFair == InitCodecFair /\ [][NextCodec]_vars /\ WF_vars(NextCodec)

\* the construction of a VBA_Parser on any input
InitDetect ==
    /\ file \in Files
    /\ type = "None"
    /\ opened = <<>>
    /\ init_pc = "ole"
    /\ CodecAtRest /\ MsoAtRest /\ ParserAtRest /\ NestedAtRest
    /\ ExprAtRest /\ DeobfAtRest /\ ScannerAtRest /\ ExtraAtRest

NextDetect ==
    \/ TestOle /\ UNCHANGED besidesDetect
    \/ TestZip /\ UNCHANGED besidesDetect
    \/ TestWord2003Xml /\ UNCHANGED besidesDetect
    \/ TestMht /\ UNCHANGED besidesDetect
    \/ TestText /\ UNCHANGED besidesDetect
    \/ FinishInit /\ UNCHANGED besidesDetect

SpecDetect == InitDetect /\ [][NextDetect]_vars

\* one call of mso_file_extract on ActiveMime data
InitMso ==
    /\ mso_data \in {d \in MsoFiles : MsoFileOK(d)}
    /\ mso_pc = "header"
    /\ mso_index = 1
    /\ mso_tried = <<>>
    /\ CodecAtRest /\ DetectAtRest /\ ParserAtRest /\ NestedAtRest
    /\ ExprAtRest /\ DeobfAtRest /\ ScannerAtRest /\ ExtraAtRest

NextMso ==
    \/ ReadMsoHeader /\ UNCHANGED besidesMso
    \/ TryGuessedStart /\ UNCHANGED besidesMso
    \/ TryZlibHeader /\ UNCHANGED besidesMso
    \/ RaiseUnableToDecompress /\ UNCHANGED besidesMso

SpecMso == InitMso /\ [][NextMso]_vars

\* calls of extract_all_macros and analyze_macros on the parser of a
\* compound document
InitParser ==
    /\ doc \in Docs
    /\ modules = NoneValue
    /\ vba_code_all_modules = NoneValue
    /\ analysis_results = NoneValue
    /\ contains_macros = NoneValue
    /\ call = NoCall
    /\ gen = NoGen
    /\ parser_pc = "idle"
    /\ outcomes = <<>>
    /\ CodecAtRest /\ DetectAtRest /\ MsoAtRest /\ NestedAtRest
    /\ ExprAtRest /\ DeobfAtRest /\ ScannerAtRest /\ ExtraAtRest

NextParser ==
    \/ CallExtractAllMacros /\ UNCHANGED besidesParser
    \/ \E show \in BOOLEAN, deob \in BOOLEAN :
          CallAnalyzeMacros(show, deob) /\ UNCHANGED besidesParser
    \/ CallReveal /\ UNCHANGED besidesParser
    \/ BeginProject /\ UNCHANGED besidesParser
    \/ ParseReference /\ UNCHANGED besidesParser
    \/ ExtractModule /\ UNCHANGED besidesParser
    \/ EndOfProject /\ UNCHANGED besidesParser
    \/ FinishExtract /\ UNCHANGED besidesParser

SpecParser == InitParser /\ [][NextParser]_vars

\* the containers with embedded entries
Containers ==
    UNION {[kind : {k}, parses : IF k = "mht" THEN {TRUE} ELSE BOOLEAN,
            entries : UNION {[1..n -> EntryStates(k)] : n \in 0..MaxEntries}] :
              k \in {"zip", "xml", "mht"}}

\* one call of open_openxml, open_word2003xml or open_mht
InitNested ==
    /\ container \in Containers
    /\ entry_index = 1
    /\ ole_subfiles = <<>>
    /\ open_pc = "parse"
    /\ archive = "none"
    /\ subfile_handles = {}
    /\ CodecAtRest /\ DetectAtRest /\ MsoAtRest /\ ParserAtRest
    /\ ExprAtRest /\ DeobfAtRest /\ ScannerAtRest /\ ExtraAtRest

NextNested ==
    \/ ParseContainer /\ UNCHANGED besidesNested
    \/ OpenEntry /\ UNCHANGED besidesNested
    \/ FinishOpen /\ UNCHANGED besidesNested
    \/ Close /\ UNCHANGED besidesNested
    \/ CollectArchive /\ UNCHANGED besidesNested

SpecNested == InitNested /\ [][NextNested]_vars

\* an integer expression of the partial VBA grammar is evaluated
InitExpr ==
    /\ expr_text \in ArithmeticTexts \cup AscTexts
    /\ expr_result = NoMatch
    /\ expr_pc = "text"
    /\ CodecAtRest /\ DetectAtRest /\ MsoAtRest /\ ParserAtRest /\ NestedAtRest
    /\ DeobfAtRest /\ ScannerAtRest /\ ExtraAtRest

NextExpr ==
    \/ Evaluate /\ UNCHANGED besidesExpr

SpecExpr == InitExpr /\ [][NextExpr]_vars

\* a source text is deobfuscated
InitDeobf ==
    /\ vba_code \in SourceTexts
    /\ vba_strings = <<>>
    /\ deobf_code = <<>>
    /\ vba_strings_again = <<>>
    /\ deobf_exc = "none"
    /\ deobf_pc = "source"
    /\ CodecAtRest /\ DetectAtRest /\ MsoAtRest /\ ParserAtRest /\ NestedAtRest
    /\ ExprAtRest /\ ScannerAtRest /\ ExtraAtRest

NextDeobf ==
    \/ DetectVbaStrings /\ UNCHANGED besidesDeobf
    \/ Reveal /\ UNCHANGED besidesDeobf
    \/ DetectAgain /\ UNCHANGED besidesDeobf

SpecDeobf == InitDeobf /\ [][NextDeobf]_vars

\* VBA_Scanner(vba_code).scan(include_decoded_strings, deobfuscate)
InitScanner ==
    /\ scan_code \in {vba_collapse_long_lines(c) : c \in Codes}
    /\ include_decoded_strings \in BOOLEAN
    /\ deobfuscate \in BOOLEAN
    /\ keyword_order \in {<<1, 2>>, <<2, 1>>}
    /\ hex_strings = <<>>
    /\ base64_strings = <<>>
    /\ autoexec_keywords = <<>>
    /\ suspicious_keywords = <<>>
    /\ iocs = <<>>
    /\ scan_results = <<>>
    /\ scan_pc = "code"
    /\ code_buffers = EmptyBuffers
    /\ scans = 1
    /\ CodecAtRest /\ DetectAtRest /\ MsoAtRest /\ ParserAtRest /\ NestedAtRest
    /\ ExprAtRest /\ DeobfAtRest /\ ExtraAtRest

NextScanner ==
    \/ DetectEncodedStrings /\ UNCHANGED besidesScanner
    \/ DetectKeywords /\ UNCHANGED besidesScanner
    \/ BuildResults /\ UNCHANGED besidesScanner

SpecScanner == InitScanner /\ [][NextScanner]_vars

\* a scanner whose scan is called more than once
InitScanAgain ==
    /\ scan_code \in {vba_collapse_long_lines(c) : c \in CodesAgain}
    /\ include_decoded_strings \in BOOLEAN
    /\ deobfuscate \in BOOLEAN
    /\ keyword_order \in {<<1, 2>>, <<2, 1>>}
    /\ hex_strings = <<>>
    /\ base64_strings = <<>>
    /\ autoexec_keywords = <<>>
    /\ suspicious_keywords = <<>>
    /\ iocs = <<>>
    /\ scan_results = <<>>
    /\ scan_pc = "code"
    /\ code_buffers = EmptyBuffers
    /\ scans = 1
    /\ CodecAtRest /\ DetectAtRest /\ MsoAtRest /\ ParserAtRest /\ NestedAtRest
    /\ ExprAtRest /\ DeobfAtRest /\ ExtraAtRest

NextScanAgain ==
    \/ NextScanner
    \/ ScanAgain /\ UNCHANGED besidesScanner

SpecScanAgain == InitScanAgain /\ [][NextScanAgain]_vars

InitFinder ==
    /\ ole_entries \in OleFiles
    /\ ole_listing \in Listings(ole_entries)
    /\ vba_projects = NoneValue
    /\ ole_contains_macros = NoneValue
    /\ finder_returns = <<>>
    /\ CodecAtRest /\ DetectAtRest /\ MsoAtRest /\ ParserAtRest /\ NestedAtRest
    /\ ExprAtRest /\ DeobfAtRest /\ ScannerAtRest /\ BreaksAtRest /\ ProxyAtRest

NextFinder ==
    \/ CallFindVbaProjects /\ UNCHANGED besidesFinder
    \/ CallDetectVbaMacros /\ UNCHANGED besidesFinder

SpecFinder == InitFinder /\ [][NextFinder]_vars

\* a tracer at the call of _throwdownBreaks: breakpoints 1..n in the deferred
\* list in the order they were added, no breakpoint set yet
InitBreaks ==
    /\ \E n \in 0..MaxBreaks : bps \in [1..n -> BreakObjects]
    /\ deferred = [i \in 1..Len(bps) |-> i]
    /\ breakpoints = <<>>
    /\ deferred_index = 0
    /\ to_activate = {}
    /\ breaks_pc = "resolving"
    /\ CodecAtRest /\ DetectAtRest /\ MsoAtRest /\ ParserAtRest /\ NestedAtRest
    /\ ExprAtRest /\ DeobfAtRest /\ ScannerAtRest /\ FinderAtRest /\ ProxyAtRest

NextBreaks ==
    \/ ResolveDeferred /\ UNCHANGED besidesBreaks
    \/ ActivateBreak /\ UNCHANGED besidesBreaks

SpecBreaks == InitBreaks /\ [][NextBreaks]_vars

\* a tracer after fireTracerThread: the TracerThread runs, its queue is empty
InitProxy ==
    /\ thread = "TracerThread"
    /\ thread_queue = <<>>
    /\ qobj = NoRequest
    /\ tracer_pc = "get"
    /\ reply = [c \in Callers |-> <<>>]
    /\ pending = [c \in Callers |-> NoRequest]
    /\ calls_made = [c \in Callers |-> 0]
    /\ enqueued = <<>>
    /\ executed = <<>>
    /\ proxy_outcomes = {}
    /\ CodecAtRest /\ DetectAtRest /\ MsoAtRest /\ ParserAtRest /\ NestedAtRest
    /\ ExprAtRest /\ DeobfAtRest /\ ScannerAtRest /\ FinderAtRest /\ BreaksAtRest

NextProxy ==
    \/ \E c \in Callers : CallWrapped(c) /\ UNCHANGED besidesProxy
    \/ \E c \in Callers : ReceiveAnswer(c) /\ UNCHANGED besidesProxy
    \/ GetRequest /\ UNCHANGED besidesProxy
    \/ ExecuteRequest /\ UNCHANGED besidesProxy
    \/ TellThreadExit /\ UNCHANGED besidesProxy
    \/ ForgetThread /\ UNCHANGED besidesProxy

SpecProxy == InitProxy /\ [][NextProxy]_vars

Init == InitCodec \/ InitDetect \/ InitMso \/ InitParser \/ InitNested \/ InitExpr \/ InitDeobf \/ InitScanner \/ InitScanAgain \/ InitFinder
           \/ InitBreaks \/ InitProxy

Next == NextCodec \/ NextDetect \/ NextMso \/ NextParser \/ NextNested \/ NextExpr \/ NextDeobf \/ NextScanAgain \/ NextFinder
           \/ NextBreaks \/ NextProxy

\* every component, each run on its own
Spec == Init /\ [][Next]_vars

\* ------------------------------------------------------------------------
\* Properties of decompress_stream
\* ------------------------------------------------------------------------

Raised(e) == pc = "raised" /\ err = e

HeaderRead == compressed_chunk_header >= 0

\* the fields of a chunk header as the format lays them out
DeclaredSize(h) == (h % 4096) + 3

SignatureBits(h) == (h \div 4096) % 8

RawFlag(h) == h \div 32768 = 0

BadFraming(h) ==
    \/ SignatureBits(h) # 3
    \/ RawFlag(h) /\ DeclaredSize(h) # 4098
    \/ ~RawFlag(h) /\ DeclaredSize(h) > 4098

\* C1: decompress_stream rejects invalid framing. A first byte other than
\* 0x01, and every chunk header that is read with signature bits other than
\* 0b011, with the raw flag and a size other than 4098, or with the compressed
\* flag and a size above 4098, ends the call in ValueError, without output; a
\* raw header that declares exactly 4098 is not rejected.
C1_RejectsInvalidFraming ==
    /\ (pc # "start" /\ Len(compressed_container) > 0 /\ compressed_container[1] # 1)
          => Raised("ValueError") /\ ~HeaderRead
    /\ (HeaderRead /\ BadFraming(compressed_chunk_header))
          => Raised("ValueError") /\ compressed_current = compressed_chunk_start
    /\ (HeaderRead /\ compressed_chunk_header = 16383) => ~Raised("ValueError")

C1_Witness == Raised("ValueError") /\ compressed_chunk_header = 16382

\* The reference decoding of a container, or ok = FALSE when the container is
\* not well formed: a raw chunk contributes its 4096 bytes, a compressed
\* chunk is decoded flag byte by flag byte from bit 0 upwards.
Undefined == [ok |-> FALSE, out |-> <<>>]

\* n bytes appended one at a time from off bytes back: the last off bytes of
\* out, repeated as often as n needs
RefCopy(out, off, n) ==
    out \o [i \in 1..n |-> out[Len(out) - off + 1 + ((i - 1) % off)]]

RefWidth(produced) == Max(4, CeilLog2(produced))

RECURSIVE RefChunks(_, _, _)
RECURSIVE RefTokens(_, _, _, _, _)
RECURSIVE RefToken(_, _, _, _, _, _, _)

RefChunks(in, pos, out) ==
    IF pos >= Len(in) THEN [ok |-> TRUE, out |-> out]
    ELSE IF pos + 2 > Len(in) THEN Undefined
    ELSE LET h == in[pos + 1] + 256 * in[pos + 2]
         IN IF BadFraming(h) \/ pos + DeclaredSize(h) > Len(in) THEN Undefined
            ELSE IF RawFlag(h)
                 THEN RefChunks(in, pos + 4098, out \o SubSeq(in, pos + 3, pos + 4098))
                 ELSE RefTokens(in, pos + 2, pos + DeclaredSize(h), out, Len(out))

RefTokens(in, p, end, out, start) ==
    IF p = end THEN RefChunks(in, end, out)
    ELSE RefToken(in, p + 1, end, out, start, in[p + 1], 0)

RefToken(in, p, end, out, start, flags, bit) ==
    IF p = end THEN RefChunks(in, end, out)
    ELSE IF bit = 8 THEN RefTokens(in, p, end, out, start)
    ELSE IF (flags \div Pow2(bit)) % 2 = 0
         THEN RefToken(in, p + 1, end, Append(out, in[p + 1]), start, flags, bit + 1)
         ELSE IF p + 2 > end \/ Len(out) = start THEN Undefined
              ELSE LET token == in[p + 1] + 256 * in[p + 2]
                       width == RefWidth(Len(out) - start)
                       length == (token % Pow2(16 - width)) + 3
                       off == (token \div Pow2(16 - width)) + 1
                   IN IF off > Len(out) THEN Undefined
                      ELSE RefToken(in, p + 2, end, RefCopy(out, off, length), start,
                                    flags, bit + 1)

RefDecode(in) ==
    IF Len(in) = 0 THEN Undefined
    ELSE IF in[1] # 1 THEN Undefined
    ELSE RefChunks(in, 1, <<>>)

\* C2: on every well-formed container decompress_stream does not raise and
\* returns exactly the reference decoding.
C2_MatchesReference ==
    LET ref == RefDecode(compressed_container)
    IN ref.ok => /\ pc # "raised"
                 /\ pc = "done" => decompressed_container = ref.out

\* a well-formed container was decoded whose copy token is longer than its
\* offset, so that it repeats the last byte
C2_Witness ==
    /\ pc = "done"
    /\ RefDecode(compressed_container).ok
    /\ offset = 1
    /\ Len(decompressed_container) >= 4

\* C3: the offset of every copy token that is unpacked is at most the number
\* of bytes produced, so that the copy starts at an index >= 0 of the output.
C3_OffsetWithinOutput == offset # 0 => copy_source >= 0

\* C4: an input that ends in the middle of a chunk, of a chunk header or of a
\* copy token is decoded as far as it goes: the unpacking of a two-byte field
\* that the input cuts short never aborts the call.
C4_TruncatedInputReturns == ~Raised("struct.error")


\* the extent of the chunk whose header was read last: its start plus the
\* size it declares, clamped to the length of the input
ChunkExtent ==
    Min(Len(compressed_container), compressed_chunk_start + DeclaredSize(compressed_chunk_header))

InCompressedChunk == HeaderRead /\ ~RawFlag(compressed_chunk_header) /\ pc # "raised"

\* C25: chunk framing is respected. While the tokens of a compressed chunk are
\* processed the read position never passes the extent of the chunk, and when
\* the processing is finished (the next chunk header is about to be read, or
\* the call returns) the read position is exactly at that extent.
C25_ChunkFramingRespected ==
    InCompressedChunk =>
        /\ compressed_current <= ChunkExtent
        /\ pc \in {"chunk", "done"} => compressed_current = ChunkExtent

\* the call is over: it has returned or raised
Ended == pc \in {"done", "raised"}

\* an iteration of the chunk loop or of the token loop that does not raise:
\* a chunk header, a raw chunk, a flag byte or a token is read
ReadsOn ==
    /\ pc' # "raised"
    /\ \/ pc = "chunk" /\ pc' \in {"raw", "tokens"}
       \/ pc = "raw"
       \/ pc = "tokens" /\ pc' = "token"
       \/ pc = "token" /\ pc' = "token"

\* C28: decompress_stream terminates on every finite input: every iteration
\* of the chunk loop and of the token loop moves the read position forward,
\* and the call always ends by returning or by raising
C28_Terminates ==
    /\ [][ReadsOn => compressed_current' > compressed_current]_vars
    /\ <>Ended

\* a copy token at the start of a chunk, which nothing precedes in the chunk,
\* has ended the call (math.log(0, 2) raises ValueError)
C28_Witness ==
    /\ Raised("ValueError")
    /\ HeaderRead /\ ~BadFraming(compressed_chunk_header)
    /\ compressed_current = compressed_chunk_start + 3
    /\ Len(decompressed_container) = decompressed_chunk_start

\* ------------------------------------------------------------------------
\* Properties of container detection
\* ------------------------------------------------------------------------

\* the five rules in the order of the claim: whether the content test of rule
\* i matches the input, whether opening the container then succeeds, the
\* method that opens it and the type it stands for
RuleMatches(i) ==
    CASE i = 1 -> file.isOleFile
      [] i = 2 -> file.is_zipfile
      [] i = 3 -> file.has_wordml_namespace
      [] i = 4 -> file.has_mime_tokens
      [] i = 5 -> ~file.has_nul

RuleOpens(i) ==
    CASE i = 1 -> file.ole_parses
      [] i = 2 -> file.zip_parses
      [] i = 3 -> file.xml_parses
      [] i = 4 -> file.mht_parses
      [] i = 5 -> TRUE

RuleMethod(i) ==
    <<"open_ole", "open_openxml", "open_word2003xml", "open_mht", "open_text">>[i]

RuleType(i) == <<"OLE", "OpenXML", "Word2003_XML", "MHTML", "Text">>[i]

InitOver == init_pc \in {"constructed", "TypeError"}

\* the rules that match and open
Winners == {i \in 1..5 : RuleMatches(i) /\ RuleOpens(i)}

FirstOf(S) == CHOOSE i \in S : \A j \in S : i <= j

\* the methods of the matching rules among the first n, in rule order
RECURSIVE MethodsUpTo(_)
MethodsUpTo(n) ==
    IF n = 0 THEN <<>>
    ELSE IF RuleMatches(n) THEN Append(MethodsUpTo(n - 1), RuleMethod(n))
         ELSE MethodsUpTo(n - 1)

\* C5 as stated: the type is that of the first rule whose test matches, no
\* later rule is applied once a test has matched, even if opening fails, and
\* construction fails with TypeError if no test matches.
C5_FirstMatchWithoutBacktracking ==
    InitOver =>
        LET matching == {i \in 1..5 : RuleMatches(i)}
        IN IF matching = {}
           THEN init_pc = "TypeError" /\ opened = <<>>
           ELSE /\ opened = <<RuleMethod(FirstOf(matching))>>
                /\ type \in {"None", RuleType(FirstOf(matching))}

\* C5 amended: the rules are applied in the fixed order until one both matches
\* and opens; the type is that of the first rule whose test matches and whose
\* container opens, every matching rule before it has been applied and none
\* after it; construction fails with TypeError iff no rule matches and opens.
C5_FirstMatchThatOpens ==
    InitOver =>
        IF Winners = {}
        THEN /\ init_pc = "TypeError"
             /\ type = "None"
             /\ opened = MethodsUpTo(5)
        ELSE /\ init_pc = "constructed"
             /\ type = RuleType(FirstOf(Winners))
             /\ opened = MethodsUpTo(FirstOf(Winners))

\* a compound document that fails to parse, and is then opened as a zip
C5_Witness ==
    /\ init_pc = "constructed"
    /\ opened = <<"open_ole", "open_openxml">>
    /\ type = "OpenXML"

\* ------------------------------------------------------------------------
\* Properties of mso_file_extract
\* ------------------------------------------------------------------------

\* the candidates in the order of the claim
Candidates == <<mso_data.hdr + 46, 50, 554>> \o Ascending(mso_data.x_positions)

IsPrefix(s, t) == Len(s) <= Len(t) /\ \A i \in 1..Len(s) : s[i] = t[i]

\* the attempts follow the candidate order, and a return is the first success
TriedInOrder ==
    /\ IsPrefix(mso_tried, Candidates)
    /\ mso_pc = "returned" =>
          /\ Len(mso_tried) >= 1
          /\ mso_tried[Len(mso_tried)] \in mso_data.inflatable
          /\ \A i \in 1..(Len(mso_tried) - 1) : mso_tried[i] \notin mso_data.inflatable

AllTriedAndFailed ==
    /\ mso_tried = Candidates
    /\ \A i \in 1..Len(mso_tried) : mso_tried[i] \notin mso_data.inflatable

Failed(i) == outcomes[i].result = "raise"

NoCallFailed == \A i \in 1..Len(outcomes) : ~Failed(i)

\* C7 as stated: an unknown tag in the reference array ends the extraction
\* with a format error the caller can catch; the process is not terminated.
C7_UnknownTagIsFormatError ==
    /\ parser_pc # "exited"
    /\ \A i \in 1..Len(outcomes) : outcomes[i].err # "SystemExit"

\* a before b in declaration order: an earlier project, or an earlier record
\* group of the same project
DeclaredBefore(a, b) == a[1] < b[1] \/ (a[1] = b[1] /\ a[2] < b[2])

\* the module sources in list order, each followed by a newline
SourcesInOrder(mods) ==
    [i \in 1..(2 * Len(mods)) |->
        IF i % 2 = 1 THEN mods[(i + 1) \div 2].code[1] ELSE Newline]

FormsInOrder ==
    [i \in 1..(2 * Len(doc.forms)) |->
        IF i % 2 = 1 THEN doc.forms[(i + 1) \div 2] ELSE Newline]

Extractable ==
    {<<p, j>> \in (1..Len(doc.projects)) \X (1..MaxModules) :
        /\ j <= doc.projects[p].count
        /\ j <= Len(doc.projects[p].groups)
        /\ doc.projects[p].groups[j].streamname.some
        /\ doc.projects[p].groups[j].textoffset.some
        /\ doc.projects[p].groups[j].stream = "ok"}

\* a dir stream is well formed: its reference array ends with the module
\* array sentinel, the declared count is the number of record groups, and each
\* record group has its stream name and text offset
WellFormedDirs ==
    \A p \in 1..Len(doc.projects) :
        /\ doc.projects[p].refs = <<PROJECTMODULES_Id>>
        /\ doc.projects[p].count = Len(doc.projects[p].groups)
        /\ \A j \in 1..Len(doc.projects[p].groups) :
              /\ doc.projects[p].groups[j].streamname.some
              /\ doc.projects[p].groups[j].textoffset.some

Emitted == IF modules.some THEN {modules.v[k].name : k \in 1..Len(modules.v)} ELSE {}

\* C9 as stated: once extract_macros has stopped, every module whose stream
\* decompresses correctly has been emitted, whatever happened to the others.
C9_SiblingsSurvive ==
    (WellFormedDirs /\ parser_pc = "idle" /\ Len(outcomes) > 0) =>
        Extractable \subseteq Emitted

Tokens(source) == {source[i] : i \in 1..Len(source)}

\* C10 as stated: a call that returns normally returns every module
\* (respectively findings over the source of every module), also after an
\* earlier call has failed midway.
C10_NoPartialResult ==
    \A i \in 1..Len(outcomes) :
        (WellFormedDirs /\ outcomes[i].result = "return" /\ outcomes[i].value.some) =>
            IF outcomes[i].op = "extract_all_macros"
            THEN Extractable \subseteq
                    {outcomes[i].value.v[k].name : k \in 1..Len(outcomes[i].value.v)}
            ELSE Extractable \subseteq Tokens(outcomes[i].value.v.source)

\* the record group of the dir stream that declares an emitted module
GroupOfModule(m) == doc.projects[m.name[1]].groups[m.name[2]]

\* C27: every module that was read was read with the stream name and the
\* text offset of its own record group: the group has both records, and the
\* stream that was opened is the one the group names; a group without one of
\* the records is never read with what the group of an earlier module gave.
C27_ModuleReadWithOwnRecords ==
    modules.some =>
        \A k \in 1..Len(modules.v) :
            /\ GroupOfModule(modules.v[k]).streamname.some
            /\ GroupOfModule(modules.v[k]).textoffset.some
            /\ modules.v[k].stream = GroupOfModule(modules.v[k]).streamname.v

\* ------------------------------------------------------------------------
\* Properties of the nested containers
\* ------------------------------------------------------------------------

OpenOver == open_pc \in {"opened", "failed"}

\* the entries a nested parser can be built for, in their order
RECURSIVE ValidEntries(_)
ValidEntries(n) ==
    IF n = 0 THEN <<>>
    ELSE IF container.entries[n] = "ole" THEN Append(ValidEntries(n - 1), n)
         ELSE ValidEntries(n - 1)

\* C11 as stated: once a container that parses has been opened, whatever
\* failed in some entries, a nested parser has been built for every valid
\* entry and the input has the type of its container.
C11_EntryFailuresAreIsolated ==
    (OpenOver /\ container.parses) =>
        /\ ole_subfiles = ValidEntries(Len(container.entries))
        /\ type = ContainerType(container.kind)

\* C23: a nested parser that open_openxml keeps is built by VBA_Parser(data=
\* ole_data) over an entry whose leading bytes are the compound-document magic
\* (so olefile.isOleFile holds for it): every such parser that is constructed
\* has the OLE type, none the zip, XML, MIME or text type
C23_NestedParsersAreOle ==
    (file.isOleFile /\ init_pc = "constructed") => type = TYPE_OLE

\* C24: after close() on a parser, every archive or compound-document handle
\* opened by the parser and by its nested parsers is released, also when the
\* opening of the container or of an entry failed
C24_CloseReleasesEverything ==
    open_pc = "closed" => (archive # "open" /\ subfile_handles = {})

\* ------------------------------------------------------------------------
\* Properties of the integer expressions
\* ------------------------------------------------------------------------

\* the text holds only digits and the four operators
IsArithmetic(text) ==
    text # <<>> /\ \A i \in 1..Len(text) : IsDigit(text[i]) \/ text[i] \in {42, 47, 45, 43}

\* the position of the last character of the text that is in S, 0 if none
LastIn(text, S) ==
    IF \E i \in 1..Len(text) : text[i] \in S
    THEN CHOOSE i \in 1..Len(text) :
            text[i] \in S /\ \A j \in (i + 1)..Len(text) : text[j] \notin S
    ELSE 0

\* the reference value of a product: * and / in one tier, from the left;
\* def is FALSE when a division by zero makes it undefined
RECURSIVE ReferenceProduct(_)
ReferenceProduct(text) ==
    LET i == LastIn(text, {42, 47})
        x == ReferenceProduct(SubSeq(text, 1, i - 1))
        y == DecimalValue(SubSeq(text, i + 1, Len(text)))
    IN IF i = 0 THEN [def |-> TRUE, v |-> DecimalValue(text)]
       ELSE IF ~x.def \/ (text[i] = 47 /\ y = 0) THEN [def |-> FALSE, v |-> 0]
       ELSE [def |-> TRUE, v |-> IF text[i] = 42 THEN x.v * y ELSE FloorDiv(x.v, y)]

\* the reference value of an expression: the products, then - and + from
\* the left
RECURSIVE ReferenceValue(_)
ReferenceValue(text) ==
    LET i == LastIn(text, {45, 43})
        x == ReferenceValue(SubSeq(text, 1, i - 1))
        y == ReferenceProduct(SubSeq(text, i + 1, Len(text)))
    IN IF i = 0 THEN ReferenceProduct(text)
       ELSE IF ~x.def \/ ~y.def THEN [def |-> FALSE, v |-> 0]
       ELSE [def |-> TRUE, v |-> IF text[i] = 45 THEN x.v - y.v ELSE x.v + y.v]

\* C12 as stated: for every expression over integer atoms and the operators
\* * / - +, the value that vba_expr_int computes is the value of the
\* reference evaluator in which * and / form one tier that binds tighter than
\* - and +, each from the left, also when * and / are mixed.
C12_MatchesTwoTierReference ==
    (expr_pc = "evaluated" /\ IsArithmetic(expr_text) /\ ReferenceValue(expr_text).def) =>
        /\ expr_result.ok
        /\ expr_result.end = Len(expr_text)
        /\ expr_result.val = ReferenceValue(expr_text).v

\* the argument of Asc( ... ) when the text is such a call
AscArgument(text) == Sub(text, 4, Len(text) - 1)

IsAscCall(text) == StartsWith(text, 0, <<65, 115, 99, 40>>) /\ text[Len(text)] = 41

\* C16 as stated: for every string expression s that evaluates to a string
\* that is not empty, Asc(s) evaluates to the code of the first character of
\* that string, whatever its length.
C16_AscGivesFirstCharacter ==
    (expr_pc = "evaluated" /\ IsAscCall(expr_text)) =>
        LET s == vba_expr_str(AscArgument(expr_text), 0, TRUE)
        IN (s.ok /\ s.end = Len(AscArgument(expr_text)) /\ s.val # <<>>) =>
              /\ expr_result.ok
              /\ expr_result.val = s.val[1]

\* ------------------------------------------------------------------------
\* Properties of detect_vba_strings
\* ------------------------------------------------------------------------

\* all the matches of vba_expr_str that scanString gives on a text, reported
\* or not, as pairs (source span, value)
RECURSIVE AllMatches(_, _)
AllMatches(text, loc) ==
    IF loc > Len(text) THEN <<>>
    ELSE TheOne({IF ~r.ok THEN AllMatches(text, SkipWhite(text, loc) + 1)
                 ELSE <<<<Sub(text, SkipWhite(text, loc), r.end), r.val>>>>
                        \o AllMatches(text, r.end) :
                 r \in {vba_expr_str(text, SkipWhite(text, loc), TRUE)}})

\* the span is a quoted literal on its own, in parentheses or not: no
\* operator and no function is applied in it
RECURSIVE IsPlainLiteral(_)
IsPlainLiteral(span) ==
    LET a == SkipWhite(span, 0)
        q == quoted_string(span, 0)
    IN IF Ch(span, a) = 40 /\ span[Len(span)] = 41
       THEN IsPlainLiteral(Sub(span, a + 1, Len(span) - 1))
       ELSE q.ok /\ SkipWhite(span, q.end) = Len(span)

Reported(strings) == {strings[i] : i \in 1..Len(strings)}

\* C13: detect_vba_strings reports exactly the matches in which an operator
\* or a function is applied (their value carries the tag, also through + and
\* &) and whose value differs from the source span; a quoted literal on its
\* own is never reported.
C13_ReportsEvaluatedOnly ==
    deobf_pc = "detected" =>
        LET all == AllMatches(expandtabs(vba_code), 0)
        IN /\ Reported(vba_strings) =
                {m \in Reported(all) : ~IsPlainLiteral(m[1]) /\ m[2] # m[1]}
           /\ \A m \in Reported(vba_strings) : ~IsPlainLiteral(m[1]) /\ m[2] # m[1]

\* a text with a quoted literal on its own, which is not reported, and a
\* concatenation of two literals by +, which is
C13_Witness ==
    /\ deobf_pc = "detected"
    /\ \E m \in Reported(AllMatches(expandtabs(vba_code), 0)) :
            IsPlainLiteral(m[1]) /\ m \notin Reported(vba_strings)
    /\ \E m \in Reported(vba_strings) :
            /\ \E i \in 1..Len(m[1]) : m[1][i] = 43
            /\ ~\E i \in 1..Len(m[1]) : m[1][i] = 40

\* C14 as stated: when every match that detect_vba_strings reports has been
\* replaced by its decoded value as a quoted literal, detect_vba_strings on
\* the text so obtained reports no match.
C14_DeobfuscationIsIdempotent ==
    (/\ deobf_pc \in {"detected_again", "aborted_again"}
     /\ \A m \in Reported(vba_strings) : is_printable(m[2])) =>
        /\ deobf_pc = "detected_again"
        /\ vba_strings_again = <<>>

\* the texts with a line end between two fragments, one of them being f
HasFragment(text, f) ==
    \E g \in Fragments : text \in {f \o <<10>> \o g, g \o <<10>> \o f}

\* C15 as stated: detect_vba_strings returns normally for every source
\* text, and what it reports for a fragment on a line of its own is still
\* reported when the other line holds a fragment whose evaluation fails.
C15_ErrorsNeverAbortTheScan ==
    deobf_pc \in {"detected", "aborted"} =>
        /\ deobf_exc = "none"
        /\ \A f \in Fragments :
              (HasFragment(vba_code, f) /\ detect_vba_strings(f).exc = "none") =>
                  Reported(detect_vba_strings(f).results) \subseteq Reported(vba_strings)

\* ------------------------------------------------------------------------
\* Properties of the findings of scan
\* ------------------------------------------------------------------------

\* the place of a kind of finding among the groups
GroupOf(kind) ==
    CASE kind = "AutoExec" -> 0
      [] kind = "Suspicious" -> 1
      [] kind = "IOC" -> 2
      [] OTHER -> 3

\* C17: in the list that scan returns, every AutoExec finding comes before
\* every Suspicious finding, every Suspicious finding before every IOC
\* finding, and every IOC finding before every decoded string.
C17_GroupsInFixedOrder ==
    scan_pc = "scanned" =>
        \A i, j \in 1..Len(scan_results) :
            i < j => GroupOf(scan_results[i][1]) <= GroupOf(scan_results[j][1])

\* a list of findings with the four groups
C17_Witness ==
    /\ scan_pc = "scanned"
    /\ {GroupOf(scan_results[i][1]) : i \in 1..Len(scan_results)} = 0..3

\* C18 as stated: in the list that scan returns no two findings have the
\* same matched text.
C18_NoTwoFindingsShareText ==
    scan_pc = "scanned" =>
        \A i, j \in 1..Len(scan_results) :
            i < j => scan_results[i][2] # scan_results[j][2]

\* the pairs that scan collected for a group, as (text, description)
Collected(kind) ==
    CASE kind = "AutoExec" -> autoexec_keywords
      [] kind = "Suspicious" -> suspicious_keywords
      [] kind = "IOC" -> [i \in 1..Len(iocs) |-> <<iocs[i][2], iocs[i][1]>>]

\* the first pair of a group with the text
FirstWith(kind, matched) ==
    Collected(kind)[CHOOSE k \in 1..Len(Collected(kind)) :
                        /\ Collected(kind)[k][1] = matched
                        /\ \A l \in 1..(k - 1) : Collected(kind)[l][1] # matched]

\* C18, amended: within each of the groups AutoExec, Suspicious and IOC no
\* two findings have the same matched text, every text that was matched has
\* its finding, and the finding has the description of the first match in
\* insertion order: the match in the code itself when there is one, before
\* the matches in the decoded strings.
C18_FirstKeptWithinGroup ==
    scan_pc = "scanned" =>
        /\ \A i, j \in 1..Len(scan_results) :
              (i < j /\ GroupOf(scan_results[i][1]) < 3
                 /\ scan_results[i][1] = scan_results[j][1]) =>
                    scan_results[i][2] # scan_results[j][2]
        /\ \A kind \in {"AutoExec", "Suspicious", "IOC"} :
              \A k \in 1..Len(Collected(kind)) :
                  \E i \in 1..Len(scan_results) :
                      /\ scan_results[i][1] = kind
                      /\ scan_results[i][2] = Collected(kind)[k][1]
        /\ \A i \in 1..Len(scan_results) :
              GroupOf(scan_results[i][1]) < 3 =>
                  /\ scan_results[i][3] =
                        FirstWith(scan_results[i][1], scan_results[i][2])[2]
                  /\ (\E k \in 1..Len(Collected(scan_results[i][1])) :
                          /\ Collected(scan_results[i][1])[k][1] = scan_results[i][2]
                          /\ Collected(scan_results[i][1])[k][2][2] = "")
                        => scan_results[i][3][2] = ""

\* a keyword matched in the code and in a decoded string, its one finding
\* having the description of the match in the code
C18_Witness ==
    /\ scan_pc = "scanned"
    /\ \E k, l \in 1..Len(autoexec_keywords) :
          /\ k < l
          /\ autoexec_keywords[k][1] = autoexec_keywords[l][1]
          /\ autoexec_keywords[k][2][2] = ""
          /\ autoexec_keywords[l][2][2] = "Hex"
    /\ \E i \in 1..Len(scan_results) :
          scan_results[i][1] = "AutoExec" /\ scan_results[i][3][2] = ""

\* the whitelisted tokens: thisdocument thisworkbook test temp http open exit
WhitelistTokens ==
    {<<116, 104, 105, 115, 100, 111, 99, 117, 109, 101, 110, 116>>,
     <<116, 104, 105, 115, 119, 111, 114, 107, 98, 111, 111, 107>>,
     <<116, 101, 115, 116>>,
     <<116, 101, 109, 112>>,
     <<104, 116, 116, 112>>,
     <<111, 112, 101, 110>>,
     <<101, 120, 105, 116>>}

ScanPastStrings == scan_pc \in {"strings", "keywords", "scanned"}

\* the quoted base64 candidates of the code that are not only hexadecimal digits
Candidates64 ==
    {v \in {Base64Matches(scan_code, 0)[i] : i \in 1..Len(Base64Matches(scan_code, 0))} :
        NotHex(v)}

\* C19 as stated: a quoted base64 candidate whose decoded value, in lower
\* case, is a whitelisted token is not among the results of
\* detect_base64_strings and gives no Base64 String finding.
C19_DecodedWhitelistedExcluded ==
    /\ ScanPastStrings =>
          \A i \in 1..Len(base64_strings) :
              LowerText(base64_strings[i][2]) \notin WhitelistTokens
    /\ scan_pc = "scanned" =>
          \A i \in 1..Len(scan_results) :
              scan_results[i][1] = "Base64 String" =>
                  LowerText(scan_results[i][2]) \notin WhitelistTokens

\* C19, amended: a quoted base64 candidate is among the results of
\* detect_base64_strings exactly when its own text, in lower case, is not a
\* whitelisted token, and it is there with its decoded value; its decoded
\* value is not compared with the whitelist.
C19_EncodedWhitelistedExcluded ==
    ScanPastStrings =>
        /\ {base64_strings[i][1] : i \in 1..Len(base64_strings)} =
              {v \in Candidates64 : LowerText(v) \notin WhitelistTokens}
        /\ \A i \in 1..Len(base64_strings) :
              base64_strings[i][2] = b64decode(base64_strings[i][1])

\* a code with the candidate "test", which is excluded, and the candidate
\* "dGVzdA==", which is reported with its decoded value test
C19_Witness ==
    /\ ScanPastStrings
    /\ <<116, 101, 115, 116>> \in Candidates64
    /\ base64_strings = <<<<<<100, 71, 86, 122, 100, 65, 61, 61>>, <<116, 101, 115, 116>>>>>>

\* the list that a scanner made for the code returns from its first scan,
\* its buffers being empty before: hex, b64, dridex and vba are the encoded
\* strings of the code, which every scan detects anew in the code alone
FirstScan(c, include, order, hex, b64, dridex, vba) ==
    TheOne({TheOne({Results(k[1], k[2], k[3], k[4]) :
                    k \in {<<AutoexecOf(buffers, 7),
                             SuspiciousOf(buffers, 7, order)
                                 \o EncodedStringsFound(hex, b64, dridex, vba),
                             IocsOf(buffers, 7),
                             DecodedStrings("Hex String", hex, include)
                                 \o DecodedStrings("Base64 String", b64, include)
                                 \o DecodedStrings("Dridex string", dridex, include)
                                 \o DecodedStrings("VBA string", vba, include)>>}}) :
            buffers \in {Buffers(c, Appended(EmptyBuffers, c, hex, b64, dridex, vba))}})

\* C26: the list that a call of scan returns is the list of the scanned code
\* and of the arguments of this call alone: a scan made before on the same
\* scanner, with these or with other arguments, leaves no finding in it and
\* takes none from it.
C26_ScanDependsOnThisCallOnly ==
    scan_pc = "scanned" =>
        scan_results = FirstScan(scan_code, include_decoded_strings, keyword_order,
                                 hex_strings, base64_strings,
                                 detect_dridex_strings(scan_code), vba_strings)

\* ------------------------------------------------------------------------
\* analyze_macros and its deobfuscate argument
\* ------------------------------------------------------------------------

\* a call of analyze_macros that returned findings over the source of at
\* least one module
AnalysisOverModules(i) ==
    /\ outcomes[i].op = "analyze_macros"
    /\ outcomes[i].result = "return"
    /\ outcomes[i].value.some
    /\ \E k \in 1..Len(outcomes[i].value.v.source) : outcomes[i].value.v.source[k][1] > 0

\* C20: expression findings follow the deobfuscate argument of the call: every
\* analyze_macros call that returns findings over module sources returns the
\* expression-decoded findings when it was made with deobfuscate=True and none
\* when it was made with deobfuscate=False, whatever the earlier calls were
C20_FindingsFollowDeobfuscateArgument ==
    \A i \in 1..Len(outcomes) :
        AnalysisOverModules(i) =>
            (HasExpressionFindings(outcomes[i].value.v) <=> outcomes[i].deob)


\* a call of reveal that returned the source of at least one module
RevealOverModules(i) ==
    /\ outcomes[i].op = "reveal"
    /\ outcomes[i].result = "return"
    /\ \E k \in 1..Len(outcomes[i].value.v.source) : outcomes[i].value.v.source[k][1] > 0

\* C21: reveal returns the document source with every expression-obfuscation
\* match replaced by its decoded value as a quoted literal, whether or not
\* analyze_macros was called before and with whatever arguments: every reveal
\* call that returns the source of modules returns it with the expressions
\* substituted
C21_RevealSubstitutesWhateverCameBefore ==
    \A i \in 1..Len(outcomes) :
        RevealOverModules(i) => outcomes[i].value.v.substituted

\* ------------------------------------------------------------------------
\* find_vba_projects and detect_vba_macros
\* ------------------------------------------------------------------------

\* the OLE file has a stream at the path, names compared without case
HasStream(path) ==
    \E e \in ole_entries :
        /\ e.type = "stream"
        /\ Len(e.path) = Len(path)
        /\ \A i \in 1..Len(path) : LowerText(e.path[i]) = LowerText(path[i])

ParentOf(storage) == SubSeq(storage, 1, Len(storage) - 1)

\* a storage whose last name is VBA in some case and whose parent holds the
\* streams PROJECT, VBA/_VBA_PROJECT and VBA/dir
Qualifies(storage) ==
    /\ LowerText(storage[Len(storage)]) = Name_vba
    /\ HasStream(ParentOf(storage) \o <<Name_PROJECT>>)
    /\ HasStream(ParentOf(storage) \o <<Name_VBA, Name_VBA_PROJECT>>)
    /\ HasStream(ParentOf(storage) \o <<Name_VBA, Name_dir>>)

QualifyingStorages == {s \in StoragesOf(ole_entries) : Qualifies(s)}

\* C22: find_vba_projects returns exactly one project per storage named VBA
\* (in any case) whose parent holds the three streams, none for the others;
\* repeated calls return the same list without duplicates, and
\* detect_vba_macros is True exactly when the list is not empty
C22_OneProjectPerQualifyingStorage ==
    /\ \A i \in 1..Len(finder_returns) :
          IF finder_returns[i].op = "find_vba_projects"
          THEN LET list == finder_returns[i].list
               IN /\ Len(list) = Cardinality(QualifyingStorages)
                  /\ {list[k].vba_root : k \in 1..Len(list)}
                        = {ParentOf(s) : s \in QualifyingStorages}
                  /\ \A k \in 1..Len(list) :
                        /\ list[k].project_path = list[k].vba_root \o <<Name_PROJECT>>
                        /\ list[k].dir_path = list[k].vba_root \o <<Name_VBA, Name_dir>>
          ELSE finder_returns[i].found <=> (QualifyingStorages # {})
    /\ vba_projects.some => Len(vba_projects.v) = Cardinality(QualifyingStorages)

\* a storage named vba in lower case qualifies, another storage named VBA
\* lacks its dir stream, and find_vba_projects has been called twice and
\* detect_vba_macros once
C22_Witness ==
    /\ QualifyingStorages = {<<Name_vba>>}
    /\ \E s \in StoragesOf(ole_entries) :
          /\ LowerText(s[Len(s)]) = Name_vba
          /\ ~HasStream(ParentOf(s) \o <<Name_VBA, Name_dir>>)
    /\ Len(finder_returns) = 3
    /\ finder_returns[1].op = "find_vba_projects"
    /\ finder_returns[2].op = "find_vba_projects"
    /\ finder_returns[3].op = "detect_vba_macros"

\* ------------------------------------------------------------------------
\* Properties of the tracer
\* ------------------------------------------------------------------------

Items(list) == {list[i] : i \in 1..Len(list)}

\* C29: when _throwdownBreaks has run, every breakpoint that was in the
\* deferred list and whose resolveAddress gives an address is no longer in
\* the deferred list and is stored in breakpoints under an address, for any
\* number and order of deferred breakpoints, and only breakpoints that do not
\* resolve are still deferred.
C29_ResolvedBreaksLeaveDeferred ==
    breaks_pc = "done" =>
        /\ \A bp \in DOMAIN bps :
              bps[bp].addr.some =>
                  /\ bp \notin Items(deferred)
                  /\ \E a \in DOMAIN breakpoints : breakpoints[a] = bp
        /\ \A bp \in Items(deferred) : ~bps[bp].addr.some

\* the deferred list right after its loop: no breakpoint that resolves is left
ResolveLoopLeavesNone ==
    breaks_pc = "activating" => \A bp \in Items(deferred) : ~bps[bp].addr.some

\* the calls that were put on the queue and whose function has run
Served == {executed[i].id : i \in {k \in 1..Len(executed) : executed[k].queued}}

\* the functions of the queued calls run in the order of the queue
ProxyRunsInQueueOrder ==
    \E n \in 0..Len(enqueued) :
        SelectSeq([i \in 1..Len(executed) |-> executed[i]],
                  LAMBDA x : x.queued)
            = [i \in 1..Len(SelectSeq(SubSeq(enqueued, 1, n), LAMBDA id : id # <<0, 0>>)) |->
                  [id |-> SelectSeq(SubSeq(enqueued, 1, n), LAMBDA id : id # <<0, 0>>)[i],
                   on |-> "TracerThread", queued |-> TRUE]]

\* a caller gets the outcome of its own call: the value the function
\* returned is returned, the exception it raised is raised
ProxyGivesOwnOutcome ==
    \A o \in proxy_outcomes :
        /\ o.value = o.id
        /\ o.does \in {"return", "return_exception"} => o.got = "returned"
        /\ o.does \in {"raise_exception", "raise_other"} => o.got = "raised"

\* a caller whose function has run has an answer on its queue
ProxyAnswersServed ==
    \A c \in Callers :
        (pending[c] # NoRequest /\ pending[c].id \in Served) => reply[c] # <<>>

\* C30: every wrapped call made from a thread other than the TracerThread
\* runs on the TracerThread, in the order of the queue, and its caller gets
\* the value its own call returned, or has the exception its own call raised
\* raised again, and never the outcome of another call; a call made on the
\* TracerThread runs at once without the queue.
C30_CallerGetsOwnOutcome ==
    /\ ProxyRunsInQueueOrder
    /\ \A i \in 1..Len(executed) : executed[i].on = "TracerThread"
    /\ ProxyGivesOwnOutcome
    /\ ProxyAnswersServed

\* a call put on the queue behind None, while self.thread was not yet None: the
\* thread has ended, the call stays on the queue and its caller in q.get()
CallLeftBehindNone ==
    /\ tracer_pc = "exited"
    /\ \E c \in Callers :
          /\ pending[c] # NoRequest
          /\ reply[c] = <<>>
          /\ \E i \in 1..Len(thread_queue) : thread_queue[i] = pending[c]
====
